---- MODULE Spec2Model ----
(***************************************************************************)
(* Multiplayer minesweeper server: the cell state engine                   *)
(* (core/gameStateManager.js), the repository (db/repository.js), the      *)
(* session registry (managers/playerManager.js) and the dispatcher         *)
(* (controllers/gameController.js).                                        *)
(*                                                                         *)
(* Every handler is an async function.  JavaScript runs one continuation   *)
(* at a time, so the code between two awaits is atomic; every await of a   *)
(* repository call is a suspension point at which any other handler may    *)
(* run.  A step of the model is: one SQL statement executes, and the       *)
(* continuation of its handler runs up to the next statement it issues,    *)
(* or to the end of handleMessage: when the engine call returns, the       *)
(* dispatcher's reaction to the result (cached score, messages) runs in    *)
(* the same step, since resumed awaits run before the next I/O callback.   *)
(*                                                                         *)
(* Coordinates in messages are JavaScript numbers, not only integers: the  *)
(* number n / Unit is written as the integer n, so that the integer k of   *)
(* the program is Num(k) = k * Unit.  Counts and scores are plain integers.*)
(***************************************************************************)
EXTENDS Integers, Sequences, FiniteSets, TLC

\* ---------------------------------------------------------------- bounds
\* The map is 640 x 640 in config/mapConstants.js; the model scales it down.  Two
\* scales are used: a ring on which handlers run concurrently, and a torus on which
\* they run one at a time.
RingWidth == 3
RingHeight == 1
TorusWidth == 4
TorusHeight == 2
\* The viewport radii are 30 and 20 in gameController.js; the model scales them to
\* at most MaxRadius, and so that a region never overlaps itself (2R+1 <= dimension).
MaxRadius == 1
\* Sessions connected, handlers in flight at once, handlers started in a run.
NumPlayers == 2
NumTasks == 2
MaxOps == 3
\* Handlers started in a run when they run one at a time.
MaxSeqOps == 2
\* Mines the oracle places on the scaled map.
MaxMines == 1
\* The numbers of the model are the multiples of 1 / Unit.
Unit == 2
\* The map on which sessions connect, move their cursor and disconnect, and the
\* messages handled in such a run.
NetWidth == 4
NetHeight == 1
MaxNetOps == 1
\* Messages of any content handled in a run.
MaxMsgOps == 2
\* Handlers started in a run in which statements may fail.
MaxFailOps == 2
\* The map on which the region query is asked about any rectangle: wide and high
\* enough for a rectangle that runs over both edges and is not the whole map.
BoardWidth == 6
BoardHeight == 6
\* The map on which the adjacency count is asked for with any set of mines: every
\* cell has eight distinct neighbours across the edges.
FieldWidth == 4
FieldHeight == 3
\* Handlers started in a run in which they overlap and the history is kept.
MaxRaceOps == 2
\* updatePosition messages handled in a run of connects, moves and closes.
MaxMoveOps == 1

\* ------------------------------------------------------- program constants
SCORE_REVEAL_SAFE == 1
SCORE_HIT_MINE_PENALTY == -50
STUN_DURATION_MS == 3000
\* SQL NULL / JavaScript null in a column or a message field.
NULL == -9

VARIABLES
    MAP_WIDTH,      \* mapConstants.MAP_WIDTH, fixed at start-up
    MAP_HEIGHT,     \* mapConstants.MAP_HEIGHT, fixed at start-up
    mines,          \* the oracle: the cells isMine() answers true for (fixed by the seed)
    limit,          \* the run's bounds: handlers in flight at once, messages handled; log:
                    \* the history is kept; reclose: handleDisconnect is called again
    map_state,      \* table map_state: cell -> row, only for the cells that have a row
    players,        \* table players: player_id -> score
    activePlayers,  \* playerManager.activePlayers: player id -> session {x, y, score}
    tasks,          \* the handlers in flight: position and local variables
    sent,           \* what the last step sent: direct sends and region broadcasts, in order
    nops,           \* messages handled so far
    returned,       \* history: the handlers that have returned, with their results: all
                    \* of them when limit.log, else only the one of the last step
    sockets,        \* the transports: ws -> readyState ("NONE" before the connection)
    wsToPlayerId,   \* playerManager.wsToPlayerId: ws -> player id
    connects        \* the handleConnect call of each transport: position and locals

config == <<MAP_WIDTH, MAP_HEIGHT, mines, limit>>
vars == <<MAP_WIDTH, MAP_HEIGHT, mines, limit, map_state, players, activePlayers,
          tasks, sent, nops, returned, sockets, wsToPlayerId, connects>>
\* What the handlers of messages leave alone.
lifecycle == <<sockets, wsToPlayerId, connects>>

\* The integer k of the program as a number of the model.
Num(k) == k * Unit

\* The cells of the map: integer coordinates in range.
Xs == { Num(k) : k \in 0 .. (MAP_WIDTH - 1) }
Ys == { Num(k) : k \in 0 .. (MAP_HEIGHT - 1) }
Cells == Xs \X Ys
PlayerIds == 1 .. NumPlayers
Tasks == 1 .. NumTasks

Min(a, b) == IF a <= b THEN a ELSE b
VIEWPORT_RADIUS_X == Num(Min(MaxRadius, (MAP_WIDTH - 1) \div 2))
VIEWPORT_RADIUS_Y == Num(Min(MaxRadius, (MAP_HEIGHT - 1) \div 2))

\* ------------------------------------------------------------- the oracle
isMine(x, y) ==
    IF x < Num(0) \/ x >= Num(MAP_WIDTH) \/ y < Num(0) \/ y >= Num(MAP_HEIGHT)
    THEN FALSE
    ELSE <<x, y>> \in mines

\* The eight offsets in the order of the two nested loops (dx outer, dy inner).
Offsets == << <<-1, -1>>, <<-1, 0>>, <<-1, 1>>, <<0, -1>>,
              <<0, 1>>, <<1, -1>>, <<1, 0>>, <<1, 1>> >>

\* A variant without the modulo: nx, ny are used as they are.
Eff_NoWrap(c, i) == << c[1] + Num(Offsets[i][1]), c[2] + Num(Offsets[i][2]) >>

\* eff_nx, eff_ny of offset number i around cell c.
Eff(c, i) == << (c[1] + Num(Offsets[i][1]) + Num(MAP_WIDTH)) % Num(MAP_WIDTH),
                (c[2] + Num(Offsets[i][2]) + Num(MAP_HEIGHT)) % Num(MAP_HEIGHT) >>

RECURSIVE CountMines(_, _)
CountMines(c, i) ==
    IF i = 0 THEN 0
    ELSE CountMines(c, i - 1) + (IF isMine(Eff(c, i)[1], Eff(c, i)[2]) THEN 1 ELSE 0)

calculateAdjacentMines(x, y) ==
    IF x < Num(0) \/ x >= Num(MAP_WIDTH) \/ y < Num(0) \/ y >= Num(MAP_HEIGHT)
    THEN 0
    ELSE CountMines(<<x, y>>, 8)

\* ---------------------------------------------------------- the repository
HasRow(db, c) == c \in DOMAIN db

\* Mutant: only existingState?.revealed === 1 is tested.
RevealedOrFlagged_RevealedOnly(db, c) ==
    HasRow(db, c) /\ db[c].revealed = 1

\* existingState?.revealed === 1 || existingState?.flag_state === 1
RevealedOrFlagged(db, c) ==
    HasRow(db, c) /\ (db[c].revealed = 1 \/ db[c].flag_state = 1)

\* Mutant: toggleFlag does not test existingState?.revealed.
IsRevealed_Never(db, c) == FALSE
\* existingState?.revealed === 1
IsRevealed(db, c) == HasRow(db, c) /\ db[c].revealed = 1
\* Mutant: toggleFlag does not test existingState?.flag_state.
IsFlagged_Never(db, c) == FALSE
\* existingState?.flag_state === 1
IsFlagged(db, c) == HasRow(db, c) /\ db[c].flag_state = 1

\* Mutant: INSERT OR IGNORE in place of INSERT OR REPLACE.
upsertRevealedCellState_InsertOrIgnore(db, cellData) ==
    LET c == <<cellData.x, cellData.y>>
        row == [revealed |-> 1, is_mine |-> cellData.is_mine,
                adjacent_mines |-> cellData.adjacent_mines, flag_state |-> 0]
    IN IF HasRow(db, c) THEN db
       ELSE [d \in DOMAIN db \cup {c} |-> IF d = c THEN row ELSE db[d]]

\* INSERT OR REPLACE INTO map_state (x, y, revealed, is_mine, adjacent_mines,
\* flag_state) VALUES (?, ?, 1, ?, ?, 0)
upsertRevealedCellState(db, cellData) ==
    LET c == <<cellData.x, cellData.y>>
        row == [revealed |-> 1, is_mine |-> cellData.is_mine,
                adjacent_mines |-> cellData.adjacent_mines, flag_state |-> 0]
    IN [d \in DOMAIN db \cup {c} |-> IF d = c THEN row ELSE db[d]]

\* Mutant: the flag is added with ON CONFLICT DO UPDATE SET flag_state = 1.
setFlagState_Upsert(db, x, y, flagValue) ==
    LET c == <<x, y>>
        row == [revealed |-> 0, is_mine |-> NULL, adjacent_mines |-> NULL, flag_state |-> 1]
    IN IF flagValue = 1
       THEN IF HasRow(db, c) THEN [db EXCEPT ![c].flag_state = 1]
            ELSE [d \in DOMAIN db \cup {c} |-> IF d = c THEN row ELSE db[d]]
       ELSE IF HasRow(db, c) /\ db[c].revealed = 0
            THEN [d \in DOMAIN db \ {c} |-> db[d]]
            ELSE db

\* Mutant: the flag is removed with DELETE ... WHERE x = ? AND y = ?, whatever revealed.
setFlagState_DeleteAny(db, x, y, flagValue) ==
    LET c == <<x, y>>
        row == [revealed |-> 0, is_mine |-> NULL, adjacent_mines |-> NULL, flag_state |-> 1]
    IN IF flagValue = 1
       THEN IF HasRow(db, c) THEN db
            ELSE [d \in DOMAIN db \cup {c} |-> IF d = c THEN row ELSE db[d]]
       ELSE [d \in DOMAIN db \ {c} |-> db[d]]

\* Mutant: the flag is removed with UPDATE ... SET flag_state = 0; the row stays.
setFlagState_ClearOnly(db, x, y, flagValue) ==
    LET c == <<x, y>>
        row == [revealed |-> 0, is_mine |-> NULL, adjacent_mines |-> NULL, flag_state |-> 1]
    IN IF flagValue = 1
       THEN IF HasRow(db, c) THEN db
            ELSE [d \in DOMAIN db \cup {c} |-> IF d = c THEN row ELSE db[d]]
       ELSE IF HasRow(db, c) /\ db[c].revealed = 0
            THEN [db EXCEPT ![c].flag_state = 0]
            ELSE db

\* flagValue 1: INSERT OR IGNORE INTO map_state (x, y, revealed, flag_state)
\*              VALUES (?, ?, 0, 1)
\* flagValue 0: DELETE FROM map_state WHERE x = ? AND y = ? AND revealed = 0
setFlagState(db, x, y, flagValue) ==
    LET c == <<x, y>>
        row == [revealed |-> 0, is_mine |-> NULL, adjacent_mines |-> NULL, flag_state |-> 1]
    IN IF flagValue = 1
       THEN IF HasRow(db, c) THEN db
            ELSE [d \in DOMAIN db \cup {c} |-> IF d = c THEN row ELSE db[d]]
       ELSE IF HasRow(db, c) /\ db[c].revealed = 0
            THEN [d \in DOMAIN db \ {c} |-> db[d]]
            ELSE db

\* Mutant: UPDATE players SET score = score + ? without the WHERE clause.
updatePlayerScore_AllRows(tbl, playerId, scoreDelta) ==
    [q \in DOMAIN tbl |-> tbl[q] + scoreDelta]

\* UPDATE players SET score = score + ? WHERE player_id = ?
updatePlayerScore(tbl, playerId, scoreDelta) ==
    IF playerId \in DOMAIN tbl
    THEN [tbl EXCEPT ![playerId] = @ + scoreDelta]
    ELSE tbl

\* ------------------------------------------------------ the session registry
\* A variant that leaves the cached score as it is.
playerManager_updatePlayerScore_Skip(ap, playerId, newScore) == ap

\* playerManager.updatePlayerScore: player.score = newScore, if the player is active.
playerManager_updatePlayerScore(ap, playerId, newScore) ==
    IF playerId \in DOMAIN ap
    THEN [ap EXCEPT ![playerId].score = newScore]
    ELSE ap

\* A variant that takes every interval for contiguous.
InInterval_NoWrap(v, lo, hi) == v >= lo /\ v <= hi

\* x_in_region, y_in_region: the interval runs over the edge when lo > hi.
InInterval(v, lo, hi) ==
    IF lo > hi THEN (v >= lo \/ v <= hi) ELSE (v >= lo /\ v <= hi)

\* A variant that does not skip the excluded id.
getPlayersInRegion_NoExclude(ap, xMin, yMin, xMax, yMax, excludePlayerId) ==
    { id \in DOMAIN ap :
        /\ InInterval(ap[id].x, xMin, xMax)
        /\ InInterval(ap[id].y, yMin, yMax) }

\* The ids of the active players whose cursor is in the region, without the excluded id.
getPlayersInRegion(ap, xMin, yMin, xMax, yMax, excludePlayerId) ==
    { id \in DOMAIN ap :
        /\ id # excludePlayerId
        /\ InInterval(ap[id].x, xMin, xMax)
        /\ InInterval(ap[id].y, yMin, yMax) }

\* ------------------------------------------------------------ the dispatcher
\* readyState === WebSocket.OPEN of the transport ws.
IsOpen(ws) == sockets[ws] = "OPEN"

\* One broadcast: the region's bounds from the centre, the players of the region
\* from the registry (ap), one send to each of them whose socket is open.  The
\* socket of a session is the transport of the same number as its player id.
broadcastToRegion(ap, centerX, centerY, radiusX, radiusY, message, excludePlayerId) ==
    LET xMin == (centerX - radiusX + Num(MAP_WIDTH)) % Num(MAP_WIDTH)
        xMax == (centerX + radiusX) % Num(MAP_WIDTH)
        yMin == (centerY - radiusY + Num(MAP_HEIGHT)) % Num(MAP_HEIGHT)
        yMax == (centerY + radiusY) % Num(MAP_HEIGHT)
        playersInRegion == getPlayersInRegion(ap, xMin, yMin, xMax, yMax, excludePlayerId)
    IN [kind |-> "broadcast", cx |-> centerX, cy |-> centerY, excl |-> excludePlayerId,
        to |-> { id \in playersInRegion : IsOpen(id) },
        msg |-> message]

\* A variant in which the message goes out whatever the readyState.
Send_AnyState(ws, message) == << [kind |-> "send", to |-> ws, msg |-> message] >>

\* ws.send(JSON.stringify(message)) on the transport ws: the message goes out on an
\* open socket; on a closing or closed one send() drops it and does not throw.
Send(ws, message) ==
    IF IsOpen(ws) THEN << [kind |-> "send", to |-> ws, msg |-> message] >> ELSE <<>>

\* ------------------------------------------------------- handlers in flight
IdleTask ==
    [pc |-> "idle", player |-> 0, type |-> "none", x |-> 0, y |-> 0,
     queue |-> <<>>, visited |-> {}, cellsToReveal |-> <<>>, scoreChange |-> 0,
     cur |-> <<0, 0>>, nbr |-> 0, pending |-> {}, result |-> [status |-> "none"],
     kept |-> {}, pre |-> <<>>, peeked |-> {}]

\* The handler's engine call returns `res` in this step: what is left is the
\* dispatcher's reaction to it, which Respond adds to the step.  The locals of the
\* engine call are dead.
Return(tk, res) ==
    [IdleTask EXCEPT !.pc = "return", !.player = tk.player, !.type = tk.type,
                     !.x = tk.x, !.y = tk.y, !.result = res,
                     !.kept = tk.kept, !.pre = tk.pre]

\* Mutant: the neighbour loop does not test visited.has(neighborKey).
NextNbr_IgnoreVisited(c, visited, i) == IF i < 8 THEN i + 1 ELSE 0

\* The first offset number after i whose cell is not in visited; 0 if there is none.
NextNbr(c, visited, i) ==
    LET js == { j \in (i + 1) .. 8 : Eff(c, j) \notin visited }
    IN IF js = {} THEN 0 ELSE CHOOSE j \in js : \A k \in js : j <= k

\* revealCell's result after performSafeReveal returned (cellsToReveal, scoreChange).
SafeResult(cells, scoreDelta) ==
    IF Len(cells) = 0
    THEN [status |-> "ignored"]
    ELSE [status |-> "revealed", scoreDelta |-> scoreDelta,
          revealedCells |-> [i \in 1 .. Len(cells) |->
              [x |-> cells[i].x, y |-> cells[i].y, state |-> "revealed",
               value |-> cells[i].adjacent_mines]]]

\* The head of the while loop of performSafeReveal: pop the next cell and issue its
\* getCellState, or leave the loop: issue the upserts, or return with nothing.
FloodNext(tk) ==
    IF tk.queue # <<>>
    THEN [tk EXCEPT !.pc = "flood_get", !.cur = Head(tk.queue),
                    !.queue = Tail(tk.queue), !.nbr = 0]
    ELSE IF Len(tk.cellsToReveal) > 0
         THEN [tk EXCEPT !.pc = "flood_upsert", !.cur = <<0, 0>>, !.nbr = 0,
                         !.visited = {}, !.pending = 1 .. Len(tk.cellsToReveal)]
         ELSE Return(tk, SafeResult(tk.cellsToReveal, tk.scoreChange))

\* The neighbour loop, resumed after offset number i: the next neighbour that is not
\* visited is peeked; when there is none the while loop goes on.
FloodLoop(tk, i) ==
    LET j == NextNbr(tk.cur, tk.visited, i)
    IN IF j = 0 THEN FloodNext(tk) ELSE [tk EXCEPT !.pc = "flood_peek", !.nbr = j]

\* History kept in the handlers in flight.  tk.kept: the cells that were flagged
\* when the clickCell message arrived and that no toggleFlag has written since.
\* tk.pre: the map_state table when the message arrived (kept when limit.log).
\* tk.peeked: the cells whose state the neighbour loop of this performSafeReveal has
\* read so far (kept when limit.log).
Toggled(c, tks) == [u \in DOMAIN tks |-> [tks[u] EXCEPT !.kept = @ \ {c}]]

\* ------------------------------------------------- the dispatcher's reaction
\* (A variant of ClickMessages that broadcasts the map update first is defined
\* before it.)
\* What handleMessage sends for the engine's result, in order.  ap is the registry
\* after playerManager.updatePlayerScore has run: player is the session object of
\* the registry itself, so the player.score the message reads is the updated one.
\* A session that handleDisconnect has removed in the meantime has a socket that is
\* not open: the score message is dropped and only the broadcast is left.
ClickMessages_MapFirst(ap, tk) ==
    LET res == tk.result
        mapUpdateMessage == [type |-> "mapUpdate", cells |-> res.revealedCells]
    IN << broadcastToRegion(ap, tk.x, tk.y, VIEWPORT_RADIUS_X, VIEWPORT_RADIUS_Y,
                            mapUpdateMessage, NULL) >>
       \o Send(tk.player, [type |-> IF res.status = "mine_hit" THEN "playerPenalty"
                                                               ELSE "scoreUpdate",
                           score |-> ap[tk.player].score + res.scoreDelta])

ClickMessages(ap, tk) ==
    LET res == tk.result
        mapUpdateMessage == [type |-> "mapUpdate", cells |-> res.revealedCells]
    IN IF res.status = "mine_hit"
       THEN Send(tk.player, [type |-> "playerPenalty",
                                  score |-> ap[tk.player].score + res.scoreDelta,
                                  stunDurationMs |-> res.stunDurationMs])
            \o << broadcastToRegion(ap, tk.x, tk.y, VIEWPORT_RADIUS_X, VIEWPORT_RADIUS_Y,
                                    mapUpdateMessage, NULL) >>
       ELSE Send(tk.player, [type |-> "scoreUpdate",
                                  score |-> ap[tk.player].score + res.scoreDelta])
            \o << broadcastToRegion(ap, tk.x, tk.y, VIEWPORT_RADIUS_X, VIEWPORT_RADIUS_Y,
                                    mapUpdateMessage, NULL) >>

\* A variant that also sends the cached score to the sender of a flagCell.
FlagMessages_WithScore(ap, tk) ==
    Send(tk.player, [type |-> "scoreUpdate", score |-> ap[tk.player].score])
    \o << broadcastToRegion(ap, tk.x, tk.y, VIEWPORT_RADIUS_X, VIEWPORT_RADIUS_Y,
                            [type |-> "mapUpdate", cells |-> << tk.result.cellState >>], NULL) >>

\* What handleMessage sends for the result of toggleFlag.
FlagMessages(ap, tk) ==
    << broadcastToRegion(ap, tk.x, tk.y, VIEWPORT_RADIUS_X, VIEWPORT_RADIUS_Y,
                         [type |-> "mapUpdate", cells |-> << tk.result.cellState >>], NULL) >>

\* The history before this step, as far as it is kept.
Earlier == IF limit.log THEN returned ELSE <<>>

\* handleMessage after the engine returned tk.result: nothing on 'ignored'; for a
\* click the cached score becomes player.score + scoreDelta, the score message is
\* built from player.score + scoreDelta read again, then the map update is broadcast
\* around the clicked cell; for a flag the map update is broadcast.  The handler is
\* over: its slot in tks (the other handlers in flight) becomes idle.
Respond(t, tk, tks) ==
    LET res == tk.result
    IN /\ tasks' = [tks EXCEPT ![t] = IdleTask]
       /\ IF res.status = "ignored"
          THEN /\ sent' = <<>>
               /\ UNCHANGED activePlayers
          ELSE IF tk.type = "clickCell"
               THEN /\ activePlayers' =
                          IF tk.player \in DOMAIN activePlayers
                          THEN playerManager_updatePlayerScore(activePlayers, tk.player,
                                   activePlayers[tk.player].score + res.scoreDelta)
                          ELSE activePlayers
                    /\ sent' = ClickMessages(activePlayers', tk)
               ELSE /\ sent' = FlagMessages(activePlayers, tk)
                    /\ UNCHANGED activePlayers
       /\ returned' = Append(Earlier,
              [player |-> tk.player, type |-> tk.type, x |-> tk.x, y |-> tk.y,
               result |-> res, kept |-> tk.kept, pre |-> tk.pre])

\* The continuation of handler t has run: it is suspended at its next statement
\* with the locals tk, or its engine call has returned and handleMessage reacts.
Resume(t, tk, tks) ==
    IF tk.pc = "return"
    THEN Respond(t, tk, tks)
    ELSE /\ tasks' = [tks EXCEPT ![t] = tk]
         /\ sent' = <<>>
         /\ returned' = Earlier
         /\ UNCHANGED activePlayers

\* ------------------------------------------------------------------ actions
\* typeof v === 'number': a value of a message is a number of the model or, for
\* anything else (a string, null, a missing field), NULL.
IsNumber(v) == v # NULL

\* The test of clickCell and flagCell on the coordinates: both are numbers, in range.
ValidCoordinates(x, y) ==
    /\ IsNumber(x) /\ IsNumber(y)
    /\ ~(x < Num(0) \/ x >= Num(MAP_WIDTH) \/ y < Num(0) \/ y >= Num(MAP_HEIGHT))

\* A clickCell or flagCell message arrives on the open transport ws of an active
\* player with coordinates that pass the test: handleMessage runs up to the engine's
\* first getCellState.
HandleMessage(t, ws, type, x, y) ==
    /\ tasks[t].pc = "idle"
    /\ \A u \in Tasks : u < t => tasks[u].pc # "idle"
    /\ Cardinality({u \in Tasks : tasks[u].pc # "idle"}) < limit.inflight
    /\ nops < limit.ops
    /\ IsOpen(ws)
    /\ ws \in DOMAIN wsToPlayerId
    /\ wsToPlayerId[ws] \in DOMAIN activePlayers
    /\ ValidCoordinates(x, y)
    /\ tasks' = [tasks EXCEPT ![t] =
                    [IdleTask EXCEPT !.pc = IF type = "clickCell" THEN "reveal_get" ELSE "flag_get",
                                     !.player = wsToPlayerId[ws], !.type = type, !.x = x, !.y = y,
                                     !.kept = IF type = "clickCell"
                                              THEN {c \in DOMAIN map_state : map_state[c].flag_state = 1}
                                              ELSE {},
                                     !.pre = IF limit.log THEN map_state ELSE <<>>]]
    /\ nops' = nops + 1
    /\ sent' = <<>>
    /\ returned' = Earlier
    /\ UNCHANGED <<config, lifecycle, map_state, players, activePlayers>>

\* revealCell, first getCellState: ignored, or the mine branch issues its upsert, or
\* performSafeReveal starts with the clicked cell in the queue and in visited.
RevealGet(t) ==
    LET tk == tasks[t]
        c == <<tk.x, tk.y>>
    IN /\ tk.pc = "reveal_get"
       /\ Resume(t, IF RevealedOrFlagged(map_state, c)
                    THEN Return(tk, [status |-> "ignored"])
                    ELSE IF isMine(tk.x, tk.y)
                         THEN [tk EXCEPT !.pc = "mine_upsert"]
                         ELSE FloodNext([tk EXCEPT !.queue = <<c>>, !.visited = {c}]),
                 tasks)
       /\ UNCHANGED <<config, lifecycle, map_state, players, nops>>

\* A variant of the mine branch that issues updatePlayerScore first.
MineUpsert_ScoreFirst(t) ==
    LET tk == tasks[t]
    IN /\ tk.pc = "mine_upsert"
       /\ players' = updatePlayerScore(players, tk.player, SCORE_HIT_MINE_PENALTY)
       /\ Resume(t, [tk EXCEPT !.pc = "mine_score"], tasks)
       /\ UNCHANGED <<config, lifecycle, map_state, nops>>

\* Mine branch: upsertRevealedCellState({x, y, is_mine: 1, adjacent_mines: null}).
MineUpsert(t) ==
    LET tk == tasks[t]
    IN /\ tk.pc = "mine_upsert"
       /\ map_state' = upsertRevealedCellState(map_state,
              [x |-> tk.x, y |-> tk.y, is_mine |-> 1, adjacent_mines |-> NULL])
       /\ Resume(t, [tk EXCEPT !.pc = "mine_score"], tasks)
       /\ UNCHANGED <<config, lifecycle, players, nops>>

\* Mine branch: updatePlayerScore(playerId, SCORE_HIT_MINE_PENALTY), then return.
MineScore(t) ==
    LET tk == tasks[t]
    IN /\ tk.pc = "mine_score"
       /\ players' = updatePlayerScore(players, tk.player, SCORE_HIT_MINE_PENALTY)
       /\ Resume(t, Return(tk,
              [status |-> "mine_hit", scoreDelta |-> SCORE_HIT_MINE_PENALTY,
               stunDurationMs |-> STUN_DURATION_MS,
               revealedCells |-> << [x |-> tk.x, y |-> tk.y, state |-> "mine", value |-> -1] >>]),
              tasks)
       /\ UNCHANGED <<config, lifecycle, map_state, nops>>

\* A variant that never looks at the neighbours of the popped cell.
FloodGet_NoSpread(t) ==
    LET tk == tasks[t]
        c == tk.cur
        adjacentMines == calculateAdjacentMines(c[1], c[2])
        cellData == [x |-> c[1], y |-> c[2], is_mine |-> 0, adjacent_mines |-> adjacentMines]
        tk2 == [tk EXCEPT !.cellsToReveal = Append(@, cellData),
                          !.scoreChange = @ + SCORE_REVEAL_SAFE]
    IN /\ tk.pc = "flood_get"
       /\ Resume(t, IF RevealedOrFlagged(map_state, c) THEN FloodNext(tk) ELSE FloodNext(tk2),
                 tasks)
       /\ UNCHANGED <<config, lifecycle, map_state, players, nops>>

\* A variant that looks at the neighbours of the popped cell whatever its count.
FloodGet_SpreadAlways(t) ==
    LET tk == tasks[t]
        c == tk.cur
        adjacentMines == calculateAdjacentMines(c[1], c[2])
        cellData == [x |-> c[1], y |-> c[2], is_mine |-> 0, adjacent_mines |-> adjacentMines]
        tk2 == [tk EXCEPT !.cellsToReveal = Append(@, cellData),
                          !.scoreChange = @ + SCORE_REVEAL_SAFE]
    IN /\ tk.pc = "flood_get"
       /\ Resume(t, IF RevealedOrFlagged(map_state, c) THEN FloodNext(tk) ELSE FloodLoop(tk2, 0),
                 tasks)
       /\ UNCHANGED <<config, lifecycle, map_state, players, nops>>

\* performSafeReveal: the getCellState of the popped cell.
FloodGet(t) ==
    LET tk == tasks[t]
        c == tk.cur
        adjacentMines == calculateAdjacentMines(c[1], c[2])
        cellData == [x |-> c[1], y |-> c[2], is_mine |-> 0, adjacent_mines |-> adjacentMines]
        tk2 == [tk EXCEPT !.cellsToReveal = Append(@, cellData),
                          !.scoreChange = @ + SCORE_REVEAL_SAFE]
    IN /\ tk.pc = "flood_get"
       /\ Resume(t, IF RevealedOrFlagged(map_state, c)
                    THEN FloodNext(tk)
                    ELSE IF adjacentMines = 0 THEN FloodLoop(tk2, 0) ELSE FloodNext(tk2),
                 tasks)
       /\ UNCHANGED <<config, lifecycle, map_state, players, nops>>

\* performSafeReveal: the getCellState of a neighbour that is not in visited; it is
\* queued and marked visited only if it has neither been revealed nor flagged.
FloodPeek(t) ==
    LET tk == tasks[t]
        n == Eff(tk.cur, tk.nbr)
        tk1 == [tk EXCEPT !.peeked = IF limit.log THEN @ \cup {n} ELSE @]
        tk2 == IF RevealedOrFlagged(map_state, n)
               THEN tk1
               ELSE [tk1 EXCEPT !.queue = Append(@, n), !.visited = @ \cup {n}]
    IN /\ tk.pc = "flood_peek"
       /\ Resume(t, FloodLoop(tk2, tk.nbr), tasks)
       /\ UNCHANGED <<config, lifecycle, map_state, players, nops>>

\* performSafeReveal: one of the upserts of Promise.all completes (they were issued
\* together and complete in any order); after the last one the score update is issued.
FloodUpsert(t) ==
    LET tk == tasks[t]
    IN /\ tk.pc = "flood_upsert"
       /\ \E i \in tk.pending :
          /\ map_state' = upsertRevealedCellState(map_state, tk.cellsToReveal[i])
          /\ Resume(t, [tk EXCEPT !.pending = @ \ {i},
                                  !.pc = IF tk.pending = {i} THEN "flood_score"
                                                             ELSE "flood_upsert"],
                    tasks)
       /\ UNCHANGED <<config, lifecycle, players, nops>>

\* performSafeReveal: updatePlayerScore(playerId, scoreChange), then return.
FloodScore(t) ==
    LET tk == tasks[t]
    IN /\ tk.pc = "flood_score"
       /\ players' = updatePlayerScore(players, tk.player, tk.scoreChange)
       /\ Resume(t, Return(tk, SafeResult(tk.cellsToReveal, tk.scoreChange)), tasks)
       /\ UNCHANGED <<config, lifecycle, map_state, nops>>

\* toggleFlag, getCellState: ignored on a revealed cell, else the unflag or the flag
\* statement is issued.
FlagGet(t) ==
    LET tk == tasks[t]
        c == <<tk.x, tk.y>>
    IN /\ tk.pc = "flag_get"
       /\ Resume(t, IF IsRevealed(map_state, c)
                    THEN Return(tk, [status |-> "ignored"])
                    ELSE IF IsFlagged(map_state, c)
                         THEN [tk EXCEPT !.pc = "flag_unset"]
                         ELSE [tk EXCEPT !.pc = "flag_set"],
                 tasks)
       /\ UNCHANGED <<config, lifecycle, map_state, players, nops>>

\* toggleFlag: setFlagState(x, y, 1), then return 'flagged'.
FlagSet(t) ==
    LET tk == tasks[t]
    IN /\ tk.pc = "flag_set"
       /\ map_state' = setFlagState(map_state, tk.x, tk.y, 1)
       /\ Resume(t, Return(tk, [status |-> "flagged",
                                cellState |-> [x |-> tk.x, y |-> tk.y, state |-> "flagged"]]),
                 Toggled(<<tk.x, tk.y>>, tasks))
       /\ UNCHANGED <<config, lifecycle, players, nops>>

\* toggleFlag: setFlagState(x, y, 0), then return 'unflagged'.
FlagUnset(t) ==
    LET tk == tasks[t]
    IN /\ tk.pc = "flag_unset"
       /\ map_state' = setFlagState(map_state, tk.x, tk.y, 0)
       /\ Resume(t, Return(tk, [status |-> "unflagged",
                                cellState |-> [x |-> tk.x, y |-> tk.y, state |-> "hidden"]]),
                 Toggled(<<tk.x, tk.y>>, tasks))
       /\ UNCHANGED <<config, lifecycle, players, nops>>

\* ------------------------------------------------------ failing statements
\* A variant whose catch block sends nothing.
Catch_Silent(t, tk, left) ==
    /\ tasks' = [tasks EXCEPT ![t] = left]
    /\ sent' = <<>>
    /\ returned' = Append(Earlier,
           [player |-> tk.player, type |-> tk.type, x |-> tk.x, y |-> tk.y,
            result |-> [status |-> "error"], kept |-> tk.kept, pre |-> tk.pre])

\* The catch block of handleMessage: the engine call of handler t (locals tk) has
\* thrown; the error message is sent on the handler's transport and the handler is
\* over.  left is what stays in the slot: statements still outstanding, or nothing.
Catch(t, tk, left) ==
    /\ tasks' = [tasks EXCEPT ![t] = left]
    /\ sent' = Send(tk.player, [type |-> "error",
                                message |-> "Internal server error processing your request."])
    /\ returned' = Append(Earlier,
           [player |-> tk.player, type |-> tk.type, x |-> tk.x, y |-> tk.y,
            result |-> [status |-> "error"], kept |-> tk.kept, pre |-> tk.pre])

\* The one outstanding statement of handler t fails (dbGet / dbRun reject): it has
\* no effect on the tables, the rejection passes through the engine, which catches
\* nothing, to the catch block of handleMessage.
Fail(t) ==
    LET tk == tasks[t]
    IN /\ tk.pc \in {"reveal_get", "mine_upsert", "mine_score", "flood_get", "flood_peek",
                     "flood_score", "flag_get", "flag_set", "flag_unset"}
       /\ Catch(t, tk, IdleTask)
       /\ UNCHANGED <<config, lifecycle, map_state, players, activePlayers, nops>>

\* One of the upserts of Promise.all fails: Promise.all rejects at once and the
\* catch block runs; the other upserts stay outstanding.
FailUpsert(t) ==
    LET tk == tasks[t]
    IN /\ tk.pc = "flood_upsert"
       /\ \E i \in tk.pending :
             Catch(t, tk, IF tk.pending = {i} THEN IdleTask
                          ELSE [tk EXCEPT !.pc = "flood_orphan", !.pending = @ \ {i}])
       /\ UNCHANGED <<config, lifecycle, map_state, players, activePlayers, nops>>

\* An upsert left outstanding by a rejected Promise.all completes or fails; nothing
\* waits for it.
OrphanUpsert(t) ==
    LET tk == tasks[t]
    IN /\ tk.pc = "flood_orphan"
       /\ \E i \in tk.pending, ok \in BOOLEAN :
          /\ map_state' = IF ok THEN upsertRevealedCellState(map_state, tk.cellsToReveal[i])
                                ELSE map_state
          /\ tasks' = [tasks EXCEPT ![t] = IF tk.pending = {i} THEN IdleTask
                                            ELSE [tk EXCEPT !.pending = @ \ {i}]]
       /\ sent' = <<>>
       /\ returned' = Earlier
       /\ UNCHANGED <<config, lifecycle, players, activePlayers, nops>>

\* --------------------------------------------------- the connection lifecycle
\* crypto.randomUUID(): the id minted for the transport ws is written ws.
NewPlayerId(ws) == ws

\* A handleConnect call that has not started.
IdleConnect == [pc |-> "none", score |-> 0]

\* The function f with the value v at k.
Set(f, k, v) == [q \in DOMAIN f \cup {k} |-> IF q = k THEN v ELSE f[q]]
\* The function f without k.
Delete(f, k) == [q \in DOMAIN f \ {k} |-> f[q]]

\* JavaScript truthiness of a column value (0, 1 or NULL).
Truthy(v) == v # 0 /\ v # NULL

\* A variant whose y condition is always y BETWEEN ? AND ?.
getCellStatesInRegion_BetweenY(db, xMin, yMin, xMax, yMax) ==
    { [x |-> c[1], y |-> c[2], revealed |-> db[c].revealed, is_mine |-> db[c].is_mine,
       adjacent_mines |-> db[c].adjacent_mines, flag_state |-> db[c].flag_state] :
      c \in { d \in DOMAIN db : InInterval(d[1], xMin, xMax) /\ d[2] >= yMin /\ d[2] <= yMax } }

\* SELECT * FROM map_state WHERE x and y are in the region, wrap-aware: the rows,
\* each with its key.
getCellStatesInRegion(db, xMin, yMin, xMax, yMax) ==
    { [x |-> c[1], y |-> c[2], revealed |-> db[c].revealed, is_mine |-> db[c].is_mine,
       adjacent_mines |-> db[c].adjacent_mines, flag_state |-> db[c].flag_state] :
      c \in { d \in DOMAIN db : InInterval(d[1], xMin, xMax) /\ InInterval(d[2], yMin, yMax) } }

\* handleConnect: the client-facing cell of a row.
MapChunkCell(cell) ==
    [x |-> cell.x, y |-> cell.y,
     state |-> IF Truthy(cell.revealed)
               THEN (IF Truthy(cell.is_mine) THEN "mine" ELSE "revealed")
               ELSE (IF Truthy(cell.flag_state) THEN "flagged" ELSE "hidden"),
     value |-> IF Truthy(cell.revealed) /\ ~Truthy(cell.is_mine)
               THEN cell.adjacent_mines
               ELSE (IF Truthy(cell.revealed) /\ Truthy(cell.is_mine) THEN -1 ELSE NULL)]

\* A variant that leaves the session in activePlayers.
removePlayer_KeepSession(ap, w2p, ws) ==
    IF ws \in DOMAIN w2p /\ w2p[ws] \in DOMAIN ap
    THEN [activePlayers |-> ap, wsToPlayerId |-> Delete(w2p, ws)]
    ELSE [activePlayers |-> ap, wsToPlayerId |-> w2p]

\* A variant that leaves the transport in wsToPlayerId.
removePlayer_KeepTransport(ap, w2p, ws) ==
    IF ws \in DOMAIN w2p /\ w2p[ws] \in DOMAIN ap
    THEN [activePlayers |-> Delete(ap, w2p[ws]), wsToPlayerId |-> w2p]
    ELSE [activePlayers |-> ap, wsToPlayerId |-> w2p]

\* playerManager.removePlayer: both maps without the session of ws, if it has one.
removePlayer(ap, w2p, ws) ==
    IF ws \in DOMAIN w2p /\ w2p[ws] \in DOMAIN ap
    THEN [activePlayers |-> Delete(ap, w2p[ws]), wsToPlayerId |-> Delete(w2p, ws)]
    ELSE [activePlayers |-> ap, wsToPlayerId |-> w2p]

Max(a, b) == IF a >= b THEN a ELSE b

\* A variant that stores the input as it comes.
updatePlayerPosition_NoClamp(ap, playerId, x, y) ==
    IF playerId \in DOMAIN ap
    THEN [ap EXCEPT ![playerId].x = x, ![playerId].y = y]
    ELSE ap

\* playerManager.updatePlayerPosition: the cursor is the input clamped to the map.
updatePlayerPosition(ap, playerId, x, y) ==
    IF playerId \in DOMAIN ap
    THEN [ap EXCEPT ![playerId].x = Max(Num(0), Min(Num(MAP_WIDTH - 1), x)),
                    ![playerId].y = Max(Num(0), Min(Num(MAP_HEIGHT - 1), y))]
    ELSE ap

\* The record of a step that handled an event of the transport ws to its end.
Event(ws, type, x, y, res) == [ws |-> ws, type |-> type, x |-> x, y |-> y, result |-> res]

\* wss.on('connection'): the transport ws is open; handleConnect calls addPlayer,
\* which mints the id and calls findOrCreatePlayer, which issues its UPDATE.
Connection(ws) ==
    /\ sockets[ws] = "NONE"
    /\ \A u \in PlayerIds : u < ws => sockets[u] # "NONE"
    /\ sockets' = [sockets EXCEPT ![ws] = "OPEN"]
    /\ connects' = [connects EXCEPT ![ws] = [IdleConnect EXCEPT !.pc = "find_update"]]
    /\ sent' = <<>>
    /\ returned' = Earlier
    /\ UNCHANGED <<config, map_state, players, activePlayers, tasks, nops, wsToPlayerId>>

\* findOrCreatePlayer: UPDATE players SET last_seen = ? WHERE player_id = ?; with no
\* row changed the INSERT is issued, else the SELECT.
FindUpdate(ws) ==
    /\ connects[ws].pc = "find_update"
    /\ connects' = [connects EXCEPT ![ws].pc =
                       IF NewPlayerId(ws) \in DOMAIN players THEN "find_select" ELSE "find_insert"]
    /\ sent' = <<>>
    /\ returned' = Earlier
    /\ UNCHANGED <<config, map_state, players, activePlayers, tasks, nops, sockets, wsToPlayerId>>

\* findOrCreatePlayer: INSERT OR IGNORE INTO players (player_id, score, last_seen)
\* VALUES (?, 0, ?); then the SELECT is issued.
FindInsert(ws) ==
    /\ connects[ws].pc = "find_insert"
    /\ players' = IF NewPlayerId(ws) \in DOMAIN players THEN players
                  ELSE Set(players, NewPlayerId(ws), 0)
    /\ connects' = [connects EXCEPT ![ws].pc = "find_select"]
    /\ sent' = <<>>
    /\ returned' = Earlier
    /\ UNCHANGED <<config, map_state, activePlayers, tasks, nops, sockets, wsToPlayerId>>

\* findOrCreatePlayer: SELECT * FROM players WHERE player_id = ? returns the row;
\* addPlayer puts the session (cursor at the centre, score of the row) in both maps
\* and returns a copy of it; handleConnect issues getCellStatesInRegion.
FindSelect(ws) ==
    LET playerId == NewPlayerId(ws)
        player == [x |-> Num(MAP_WIDTH \div 2), y |-> Num(MAP_HEIGHT \div 2),
                   score |-> players[playerId]]
    IN /\ connects[ws].pc = "find_select"
       /\ playerId \in DOMAIN players
       /\ activePlayers' = Set(activePlayers, playerId, player)
       /\ wsToPlayerId' = Set(wsToPlayerId, ws, playerId)
       /\ connects' = [connects EXCEPT ![ws] = [pc |-> "region", score |-> player.score]]
       /\ sent' = <<>>
       /\ returned' = Earlier
       /\ UNCHANGED <<config, map_state, players, tasks, nops, sockets>>

\* handleConnect after getCellStatesInRegion: the rows are projected, the players of
\* the region are read from the registry, initialState is sent on ws and playerJoined
\* is broadcast around the centre, excluding the new player.
InitialState(ws) ==
    LET playerId == NewPlayerId(ws)
        x == Num(MAP_WIDTH \div 2)
        y == Num(MAP_HEIGHT \div 2)
        xMin == (x - VIEWPORT_RADIUS_X + Num(MAP_WIDTH)) % Num(MAP_WIDTH)
        xMax == (x + VIEWPORT_RADIUS_X) % Num(MAP_WIDTH)
        yMin == (y - VIEWPORT_RADIUS_Y + Num(MAP_HEIGHT)) % Num(MAP_HEIGHT)
        yMax == (y + VIEWPORT_RADIUS_Y) % Num(MAP_HEIGHT)
        cellsData == getCellStatesInRegion(map_state, xMin, yMin, xMax, yMax)
        mapChunk == { MapChunkCell(cell) : cell \in cellsData }
        nearbyPlayers == { [id |-> id, x |-> activePlayers[id].x, y |-> activePlayers[id].y] :
                           id \in getPlayersInRegion(activePlayers, xMin, yMin, xMax, yMax, playerId) }
        initialStateMessage == [type |-> "initialState", playerId |-> playerId,
                                score |-> connects[ws].score, cells |-> mapChunk,
                                players |-> nearbyPlayers, self |-> [x |-> x, y |-> y]]
        playerJoinedMessage == [type |-> "playerJoined", id |-> playerId, x |-> x, y |-> y]
    IN /\ connects[ws].pc = "region"
       /\ connects' = [connects EXCEPT ![ws].pc = "done"]
       /\ sent' = Send(ws, initialStateMessage)
                  \o << broadcastToRegion(activePlayers, x, y, VIEWPORT_RADIUS_X,
                                          VIEWPORT_RADIUS_Y, playerJoinedMessage, playerId) >>
       /\ returned' = Append(Earlier, Event(ws, "connect", x, y, [status |-> "connected"]))
       /\ UNCHANGED <<config, map_state, players, activePlayers, tasks, nops, sockets, wsToPlayerId>>

\* The peer closes the transport or the connection is lost: readyState is no longer
\* OPEN; the 'close' event is emitted later.
Closing(ws) ==
    /\ sockets[ws] = "OPEN"
    /\ sockets' = [sockets EXCEPT ![ws] = "CLOSING"]
    /\ sent' = <<>>
    /\ returned' = Earlier
    /\ UNCHANGED <<config, map_state, players, activePlayers, tasks, nops, wsToPlayerId, connects>>

\* ws.on('close'): handleDisconnect(ws).  With limit.reclose it is also called
\* again for a transport whose close has been handled; the record of the step tells
\* which of the two it was.
HandleDisconnect(ws) ==
    LET registered == ws \in DOMAIN wsToPlayerId
        playerId == wsToPlayerId[ws]
        hasPlayer == playerId \in DOMAIN activePlayers
        lastX == IF hasPlayer THEN activePlayers[playerId].x ELSE Num(MAP_WIDTH \div 2)
        lastY == IF hasPlayer THEN activePlayers[playerId].y ELSE Num(MAP_HEIGHT \div 2)
        removed == removePlayer(activePlayers, wsToPlayerId, ws)
    IN /\ sockets[ws] = "CLOSING" \/ (limit.reclose /\ sockets[ws] = "CLOSED")
       /\ sockets' = [sockets EXCEPT ![ws] = "CLOSED"]
       /\ IF registered
          THEN /\ activePlayers' = removed.activePlayers
               /\ wsToPlayerId' = removed.wsToPlayerId
               /\ sent' = << broadcastToRegion(activePlayers', lastX, lastY, VIEWPORT_RADIUS_X,
                                               VIEWPORT_RADIUS_Y,
                                               [type |-> "playerLeft", id |-> playerId], NULL) >>
          ELSE /\ sent' = <<>>
               /\ UNCHANGED <<activePlayers, wsToPlayerId>>
       /\ returned' = Append(Earlier, Event(ws, "close", NULL, NULL,
                                            [status |-> "closed",
                                             again |-> sockets[ws] = "CLOSED"]))
       /\ UNCHANGED <<config, map_state, players, tasks, nops, connects>>

\* The values a coordinate of a message is drawn from, for a dimension of n cells:
\* a negative number, 0, the non-integers 1 / Unit and n - 1 / Unit, which are in
\* range, n, which is not, and a value that is not a number.
Values(n) == {-1, 0, 1, Num(n) - 1, Num(n), NULL}

\* An updatePosition message with numbers arrives on the open transport ws of an
\* active player: the cursor is updated and broadcast around itself, excluding the
\* player.
UpdatePosition(ws, x, y) ==
    LET playerId == wsToPlayerId[ws]
        player == activePlayers'[playerId]
    IN /\ nops < limit.ops
       /\ IsOpen(ws)
       /\ ws \in DOMAIN wsToPlayerId
       /\ playerId \in DOMAIN activePlayers
       /\ IsNumber(x) /\ IsNumber(y)
       /\ activePlayers' = updatePlayerPosition(activePlayers, playerId, x, y)
       /\ sent' = << broadcastToRegion(activePlayers', player.x, player.y, VIEWPORT_RADIUS_X,
                                       VIEWPORT_RADIUS_Y,
                                       [type |-> "playerPositionUpdate",
                                        players |-> << [id |-> playerId, x |-> player.x,
                                                        y |-> player.y] >>],
                                       playerId) >>
       /\ nops' = nops + 1
       /\ returned' = Append(Earlier, Event(ws, "updatePosition", x, y, [status |-> "moved"]))
       /\ UNCHANGED <<config, map_state, players, tasks, sockets, wsToPlayerId, connects>>

\* The kinds of message text: no JSON, or an object with one of the three types or
\* another type.
MessageTypes == {"malformed", "clickCell", "flagCell", "updatePosition", "unknown"}

\* What handleMessage does with a message that reaches neither the engine nor the
\* registry: "parse" (JSON.parse throws in the 'message' callback), "no_player" (the
\* transport has no player id), "no_data" (message.data is missing: the destructuring
\* throws inside the try), "coordinates" (the test on x and y fails), "type" (the
\* default case); "none" for a message that is handled.
Rejection(ws, type, hasData, x, y) ==
    IF type = "malformed" THEN "parse"
    ELSE IF ~(ws \in DOMAIN wsToPlayerId /\ wsToPlayerId[ws] \in DOMAIN activePlayers)
         THEN "no_player"
    ELSE IF type = "unknown" THEN "type"
    ELSE IF ~hasData THEN "no_data"
    ELSE IF type = "updatePosition"
         THEN (IF IsNumber(x) /\ IsNumber(y) THEN "none" ELSE "coordinates")
         ELSE (IF ValidCoordinates(x, y) THEN "none" ELSE "coordinates")

\* A message arrives on the open transport ws and is dropped: nothing changes; the
\* one reply is the error message, sent from the catch block of handleMessage when
\* the handler has thrown.  A message is written with x = y = NULL when it has no
\* data, and without data when its data is never looked at.
Reject(ws, type, hasData, x, y) ==
    LET why == Rejection(ws, type, hasData, x, y)
    IN /\ nops < limit.ops
       /\ IsOpen(ws)
       /\ ~hasData => x = NULL /\ y = NULL
       /\ type \in {"malformed", "unknown"} => ~hasData
       /\ why # "none"
       /\ sent' = IF why = "no_data"
                  THEN Send(ws, [type |-> "error",
                                 message |-> "Internal server error processing your request."])
                  ELSE <<>>
       /\ nops' = nops + 1
       /\ returned' = Append(Earlier, Event(ws, type, IF hasData THEN x ELSE NULL,
                                            IF hasData THEN y ELSE NULL,
                                            [status |-> "rejected", why |-> why]))
       /\ UNCHANGED <<config, map_state, players, activePlayers, tasks, sockets,
                      wsToPlayerId, connects>>

\* ------------------------------------------------------------ specification
\* The server after start-up on a w x h map, with every player connected (cursor
\* at the centre, score 0) and an empty map_state table.
InitWith(w, h, inflight, ops, log) ==
    /\ MAP_WIDTH = w
    /\ MAP_HEIGHT = h
    /\ mines \in { m \in SUBSET ({ Num(k) : k \in 0 .. (w - 1) } \X { Num(k) : k \in 0 .. (h - 1) }) :
                       Cardinality(m) <= MaxMines }
    /\ limit = [inflight |-> inflight, ops |-> ops, log |-> log, reclose |-> FALSE]
    /\ map_state = [c \in {} |-> NULL]
    /\ players = [p \in PlayerIds |-> 0]
    /\ activePlayers = [p \in PlayerIds |->
                           [x |-> Num(w \div 2), y |-> Num(h \div 2), score |-> 0]]
    /\ tasks = [t \in Tasks |-> IdleTask]
    /\ sent = <<>>
    /\ nops = 0
    /\ returned = <<>>
    /\ sockets = [ws \in PlayerIds |-> "OPEN"]
    /\ wsToPlayerId = [ws \in PlayerIds |-> ws]
    /\ connects = [ws \in PlayerIds |-> [pc |-> "done", score |-> 0]]

\* Handlers run concurrently, on the ring.
Init == InitWith(RingWidth, RingHeight, NumTasks, MaxOps, FALSE)

\* Handlers run one at a time, on the torus.
InitSeq == InitWith(TorusWidth, TorusHeight, 1, MaxSeqOps, TRUE)

Next ==
    \/ \E t \in Tasks, p \in PlayerIds, type \in {"clickCell", "flagCell"},
          x \in Xs, y \in Ys : HandleMessage(t, p, type, x, y)
    \/ \E t \in Tasks : RevealGet(t)
    \/ \E t \in Tasks : MineUpsert(t)
    \/ \E t \in Tasks : MineScore(t)
    \/ \E t \in Tasks : FloodGet(t)
    \/ \E t \in Tasks : FloodPeek(t)
    \/ \E t \in Tasks : FloodUpsert(t)
    \/ \E t \in Tasks : FloodScore(t)
    \/ \E t \in Tasks : FlagGet(t)
    \/ \E t \in Tasks : FlagSet(t)
    \/ \E t \in Tasks : FlagUnset(t)

Spec == Init /\ [][Next]_vars

SpecSeq == InitSeq /\ [][Next]_vars

\* The server after start-up: no transport, an empty registry; map_state is the
\* table of the database file, empty or left by an earlier run with one flag.
InitLifecycle(reclose) ==
    /\ MAP_WIDTH = NetWidth
    /\ MAP_HEIGHT = NetHeight
    /\ mines \in { m \in SUBSET ({ Num(k) : k \in 0 .. (NetWidth - 1) }
                                    \X { Num(k) : k \in 0 .. (NetHeight - 1) }) :
                       Cardinality(m) <= MaxMines }
    /\ limit = [inflight |-> 1, ops |-> MaxNetOps, log |-> FALSE, reclose |-> reclose]
    /\ map_state \in { [c \in {} |-> NULL],
                       setFlagState([c \in {} |-> NULL], Num(NetWidth \div 2), Num(0), 1) }
    /\ players = [p \in {} |-> 0]
    /\ activePlayers = [p \in {} |-> NULL]
    /\ tasks = [t \in Tasks |-> IdleTask]
    /\ sent = <<>>
    /\ nops = 0
    /\ returned = <<>>
    /\ sockets = [ws \in PlayerIds |-> "NONE"]
    /\ wsToPlayerId = [ws \in {} |-> NULL]
    /\ connects = [ws \in PlayerIds |-> IdleConnect]

\* Every transport emits its 'close' event once.
InitNet == InitLifecycle(FALSE)

\* handleDisconnect is also called again for a transport whose close was handled.
InitClose == InitLifecycle(TRUE)

\* Transports connect and close; the sessions send clickCell and flagCell messages
\* for the cells of the map and updatePosition messages with any numbers.
NextNet ==
    \/ \E ws \in PlayerIds : Connection(ws)
    \/ \E ws \in PlayerIds : FindUpdate(ws)
    \/ \E ws \in PlayerIds : FindInsert(ws)
    \/ \E ws \in PlayerIds : FindSelect(ws)
    \/ \E ws \in PlayerIds : InitialState(ws)
    \/ \E ws \in PlayerIds : Closing(ws)
    \/ \E ws \in PlayerIds : HandleDisconnect(ws)
    \/ \E ws \in PlayerIds, x \in Values(MAP_WIDTH), y \in Values(MAP_HEIGHT) :
          UpdatePosition(ws, x, y)
    \/ \E t \in Tasks, ws \in PlayerIds, type \in {"clickCell", "flagCell"},
          x \in Xs, y \in Ys : HandleMessage(t, ws, type, x, y)
    \/ \E t \in Tasks : RevealGet(t)
    \/ \E t \in Tasks : MineUpsert(t)
    \/ \E t \in Tasks : MineScore(t)
    \/ \E t \in Tasks : FloodGet(t)
    \/ \E t \in Tasks : FloodPeek(t)
    \/ \E t \in Tasks : FloodUpsert(t)
    \/ \E t \in Tasks : FloodScore(t)
    \/ \E t \in Tasks : FlagGet(t)
    \/ \E t \in Tasks : FlagSet(t)
    \/ \E t \in Tasks : FlagUnset(t)

SpecNet == InitNet /\ [][NextNet]_vars

SpecClose == InitClose /\ [][NextNet]_vars

\* The 'close' event of a transport that is no longer open is emitted and handled.
SpecNetLive == SpecNet /\ \A ws \in PlayerIds : WF_vars(HandleDisconnect(ws))

\* The server after start-up, nobody connected, no mine, an empty table; the history
\* of the connect handlers, moves and closes is kept.
InitMove ==
    /\ MAP_WIDTH = NetWidth
    /\ MAP_HEIGHT = NetHeight
    /\ mines = {}
    /\ limit = [inflight |-> 1, ops |-> MaxMoveOps, log |-> TRUE, reclose |-> FALSE]
    /\ map_state = [c \in {} |-> NULL]
    /\ players = [p \in {} |-> 0]
    /\ activePlayers = [p \in {} |-> NULL]
    /\ tasks = [t \in Tasks |-> IdleTask]
    /\ sent = <<>>
    /\ nops = 0
    /\ returned = <<>>
    /\ sockets = [ws \in PlayerIds |-> "NONE"]
    /\ wsToPlayerId = [ws \in {} |-> NULL]
    /\ connects = [ws \in PlayerIds |-> IdleConnect]

\* Transports connect and close; the sessions send updatePosition messages only.
NextMove ==
    \/ \E ws \in PlayerIds : Connection(ws)
    \/ \E ws \in PlayerIds : FindUpdate(ws)
    \/ \E ws \in PlayerIds : FindInsert(ws)
    \/ \E ws \in PlayerIds : FindSelect(ws)
    \/ \E ws \in PlayerIds : InitialState(ws)
    \/ \E ws \in PlayerIds : Closing(ws)
    \/ \E ws \in PlayerIds : HandleDisconnect(ws)
    \/ \E ws \in PlayerIds, x \in Values(MAP_WIDTH), y \in Values(MAP_HEIGHT) :
          UpdatePosition(ws, x, y)

SpecMove == InitMove /\ [][NextMove]_vars

\* The server on the ring with every player connected; a mine may be at any point
\* of row 0 the oracle is asked about, the points between the cells included.
InitMsg ==
    /\ MAP_WIDTH = RingWidth
    /\ MAP_HEIGHT = RingHeight
    /\ mines \in { m \in SUBSET ((0 .. (Num(RingWidth) - 1)) \X {Num(0)}) :
                       Cardinality(m) <= MaxMines }
    /\ limit = [inflight |-> 1, ops |-> MaxMsgOps, log |-> FALSE, reclose |-> FALSE]
    /\ map_state = [c \in {} |-> NULL]
    /\ players = [p \in PlayerIds |-> 0]
    /\ activePlayers = [p \in PlayerIds |->
                           [x |-> Num(RingWidth \div 2), y |-> Num(RingHeight \div 2),
                            score |-> 0]]
    /\ tasks = [t \in Tasks |-> IdleTask]
    /\ sent = <<>>
    /\ nops = 0
    /\ returned = <<>>
    /\ sockets = [ws \in PlayerIds |-> "OPEN"]
    /\ wsToPlayerId = [ws \in PlayerIds |-> ws]
    /\ connects = [ws \in PlayerIds |-> [pc |-> "done", score |-> 0]]

\* Messages of any content: text that is no JSON, an unknown type, no data, and
\* coordinates of any value.
NextMsg ==
    \/ \E ws \in PlayerIds, type \in MessageTypes, hasData \in BOOLEAN,
          x \in Values(MAP_WIDTH), y \in Values(MAP_HEIGHT) : Reject(ws, type, hasData, x, y)
    \/ \E t \in Tasks, ws \in PlayerIds, type \in {"clickCell", "flagCell"},
          x \in Values(MAP_WIDTH), y \in Values(MAP_HEIGHT) : HandleMessage(t, ws, type, x, y)
    \/ \E t \in Tasks : RevealGet(t)
    \/ \E t \in Tasks : MineUpsert(t)
    \/ \E t \in Tasks : MineScore(t)
    \/ \E t \in Tasks : FloodGet(t)
    \/ \E t \in Tasks : FloodPeek(t)
    \/ \E t \in Tasks : FloodUpsert(t)
    \/ \E t \in Tasks : FloodScore(t)
    \/ \E t \in Tasks : FlagGet(t)
    \/ \E t \in Tasks : FlagSet(t)
    \/ \E t \in Tasks : FlagUnset(t)

SpecMsg == InitMsg /\ [][NextMsg]_vars

\* Handlers run concurrently on the ring, and every statement may fail.
InitFail == InitWith(RingWidth, RingHeight, NumTasks, MaxFailOps, FALSE)

NextFail ==
    \/ \E t \in Tasks, p \in PlayerIds, type \in {"clickCell", "flagCell"},
          x \in Xs, y \in Ys : HandleMessage(t, p, type, x, y)
    \/ \E t \in Tasks : RevealGet(t)
    \/ \E t \in Tasks : MineUpsert(t)
    \/ \E t \in Tasks : MineScore(t)
    \/ \E t \in Tasks : FloodGet(t)
    \/ \E t \in Tasks : FloodPeek(t)
    \/ \E t \in Tasks : FloodUpsert(t)
    \/ \E t \in Tasks : FloodScore(t)
    \/ \E t \in Tasks : FlagGet(t)
    \/ \E t \in Tasks : FlagSet(t)
    \/ \E t \in Tasks : FlagUnset(t)
    \/ \E t \in Tasks : Fail(t)
    \/ \E t \in Tasks : FailUpsert(t)
    \/ \E t \in Tasks : OrphanUpsert(t)

SpecFail == InitFail /\ [][NextFail]_vars

\* The table after the safe cells of rev have been revealed and the cells of flg
\* flagged: performSafeReveal's upsert for each cell of rev, setFlagState(x, y, 1)
\* for each cell of flg.
RECURSIVE Persist(_, _, _)
Persist(db, rev, flg) ==
    IF rev # {}
    THEN LET c == CHOOSE d \in rev : TRUE
         IN Persist(upsertRevealedCellState(db,
                        [x |-> c[1], y |-> c[2], is_mine |-> 0,
                         adjacent_mines |-> calculateAdjacentMines(c[1], c[2])]),
                    rev \ {c}, flg)
    ELSE IF flg # {}
         THEN LET c == CHOOSE d \in flg : TRUE
              IN Persist(setFlagState(db, c[1], c[2], 1), rev, flg \ {c})
         ELSE db

\* The server on the board, nobody connected, with the one mine at (0, 0): the table
\* is what clicks on cells next to the mine (each reveals itself only) and flags
\* have left in it.
InitRegion ==
    /\ MAP_WIDTH = BoardWidth
    /\ MAP_HEIGHT = BoardHeight
    /\ mines = { <<Num(0), Num(0)>> }
    /\ limit = [inflight |-> 1, ops |-> 1, log |-> FALSE, reclose |-> FALSE]
    /\ \E rev \in SUBSET { <<Num(1), Num(1)>>, <<Num(BoardWidth - 1), Num(BoardHeight - 1)>>,
                           <<Num(1), Num(0)>> },
          flg \in SUBSET { <<Num(3), Num(3)>>, <<Num(0), Num(3)>> } :
          map_state = Persist([c \in {} |-> NULL], rev, flg)
    /\ players = [p \in {} |-> 0]
    /\ activePlayers = [p \in {} |-> NULL]
    /\ tasks = [t \in Tasks |-> IdleTask]
    /\ sent = <<>>
    /\ nops = 0
    /\ returned = <<>>
    /\ sockets = [ws \in PlayerIds |-> "NONE"]
    /\ wsToPlayerId = [ws \in {} |-> NULL]
    /\ connects = [ws \in PlayerIds |-> IdleConnect]

\* getCellStatesInRegion is called with the corners of a rectangle and returns.
RegionQuery(xMin, yMin, xMax, yMax) ==
    /\ nops < limit.ops
    /\ nops' = nops + 1
    /\ returned' = << [type |-> "region", xMin |-> xMin, yMin |-> yMin, xMax |-> xMax,
                       yMax |-> yMax,
                       result |-> getCellStatesInRegion(map_state, xMin, yMin, xMax, yMax)] >>
    /\ UNCHANGED <<config, lifecycle, map_state, players, activePlayers, tasks, sent>>

NextRegion ==
    \E xMin \in Xs, yMin \in Ys, xMax \in Xs, yMax \in Ys : RegionQuery(xMin, yMin, xMax, yMax)

\* The region query on a table of revealed and flagged cells, for any rectangle.
SpecRegion == InitRegion /\ [][NextRegion]_vars

\* The server on the field with every player connected; the table is empty or holds
\* one flag, at (1, 1); one message is handled.
InitFlood ==
    /\ MAP_WIDTH = FieldWidth
    /\ MAP_HEIGHT = FieldHeight
    /\ mines \in { m \in SUBSET ({ Num(k) : k \in 0 .. (FieldWidth - 1) }
                                    \X { Num(k) : k \in 0 .. (FieldHeight - 1) }) :
                       Cardinality(m) <= MaxMines }
    /\ limit = [inflight |-> 1, ops |-> 1, log |-> TRUE, reclose |-> FALSE]
    /\ map_state \in { [c \in {} |-> NULL],
                       setFlagState([c \in {} |-> NULL], Num(1), Num(1), 1) }
    /\ players = [p \in PlayerIds |-> 0]
    /\ activePlayers = [p \in PlayerIds |->
                           [x |-> Num(FieldWidth \div 2), y |-> Num(FieldHeight \div 2),
                            score |-> 0]]
    /\ tasks = [t \in Tasks |-> IdleTask]
    /\ sent = <<>>
    /\ nops = 0
    /\ returned = <<>>
    /\ sockets = [ws \in PlayerIds |-> "OPEN"]
    /\ wsToPlayerId = [ws \in PlayerIds |-> ws]
    /\ connects = [ws \in PlayerIds |-> [pc |-> "done", score |-> 0]]

\* One handler on the field, where a flood-fill stops at the cells next to a mine.
SpecFlood == InitFlood /\ [][Next]_vars

\* Handlers run concurrently, on the ring, and the history of their results is kept.
InitRace == InitWith(RingWidth, RingHeight, NumTasks, MaxRaceOps, TRUE)

SpecRace == InitRace /\ [][Next]_vars

\* The server on the field, nobody connected, the table empty; the seed puts mines
\* on any cells.
InitOracle ==
    /\ MAP_WIDTH = FieldWidth
    /\ MAP_HEIGHT = FieldHeight
    /\ mines \in SUBSET ({ Num(k) : k \in 0 .. (FieldWidth - 1) }
                            \X { Num(k) : k \in 0 .. (FieldHeight - 1) })
    /\ limit = [inflight |-> 1, ops |-> 1, log |-> FALSE, reclose |-> FALSE]
    /\ map_state = [c \in {} |-> NULL]
    /\ players = [p \in {} |-> 0]
    /\ activePlayers = [p \in {} |-> NULL]
    /\ tasks = [t \in Tasks |-> IdleTask]
    /\ sent = <<>>
    /\ nops = 0
    /\ returned = <<>>
    /\ sockets = [ws \in PlayerIds |-> "NONE"]
    /\ wsToPlayerId = [ws \in {} |-> NULL]
    /\ connects = [ws \in PlayerIds |-> IdleConnect]

\* calculateAdjacentMines is called for a cell and returns.
AdjacentQuery(x, y) ==
    /\ nops < limit.ops
    /\ nops' = nops + 1
    /\ returned' = << [type |-> "adjacent", x |-> x, y |-> y,
                       result |-> calculateAdjacentMines(x, y)] >>
    /\ UNCHANGED <<config, lifecycle, map_state, players, activePlayers, tasks, sent>>

NextOracle == \E x \in Xs, y \in Ys : AdjacentQuery(x, y)

\* The adjacency count of any cell, for any set of mines.
SpecOracle == InitOracle /\ [][NextOracle]_vars

\* The statement that handler t has issued completes, and its continuation runs.
Statement(t) ==
    \/ RevealGet(t) \/ MineUpsert(t) \/ MineScore(t)
    \/ FloodGet(t) \/ FloodPeek(t) \/ FloodUpsert(t) \/ FloodScore(t)
    \/ FlagGet(t) \/ FlagSet(t) \/ FlagUnset(t)

\* The database completes every statement it is given: a handler that waits for a
\* statement is resumed, whatever the other handlers do.  This is weak fairness of
\* Statement(t), WF_vars(Statement(t)), with ENABLED written out: a handler has a
\* statement to complete exactly when it is not idle, and the step changes tasks[t].
SpecLive ==
    /\ Init /\ [][Next]_vars
    /\ \A t \in Tasks : []<>(tasks[t].pc = "idle") \/ []<><<Statement(t)>>_vars

\* ------------------------------------------------------------------ claims
\* What the claims read off a state.
IsOpenSocket(ws) == sockets[ws] = "OPEN"
Rev(c) == c \in DOMAIN map_state /\ map_state[c].revealed = 1
Flg(c) == c \in DOMAIN map_state /\ map_state[c].flag_state = 1
CellOf(tk) == <<tk.x, tk.y>>
\* Handler t takes the step (the history field kept is also written by the steps of
\* other handlers).
Stepped(t) == [tasks'[t] EXCEPT !.kept = {}] # [tasks[t] EXCEPT !.kept = {}]
\* Handler t returns in the step; Ret is then the record of its return.
Returns(t) == tasks[t].pc # "idle" /\ tasks'[t].pc = "idle"
Ret == returned'[Len(returned')]
\* A handler has returned in the step that led to this state; Done is its record,
\* Before the record of the handler that returned before it (when all are kept).
JustReturned ==
    /\ returned # <<>>
    /\ limit.log => \A t \in Tasks : tasks[t].pc = "idle"
Done == returned[Len(returned)]
Before == returned[Len(returned) - 1]
\* Nothing persisted or cached changes and nothing is sent.
NoEffect ==
    /\ map_state' = map_state
    /\ players' = players
    /\ activePlayers' = activePlayers
    /\ sent' = <<>>
FlaggedRow == [revealed |-> 0, is_mine |-> NULL, adjacent_mines |-> NULL, flag_state |-> 1]
MineRow == [revealed |-> 1, is_mine |-> 1, adjacent_mines |-> NULL, flag_state |-> 0]
\* The table db with the row of cell c set to row, and nothing else changed.
WithRow(db, c, row) == [d \in DOMAIN db \cup {c} |-> IF d = c THEN row ELSE db[d]]

\* C1: in every reachable state, whatever the interleaving of reveals and flag
\* toggles, no row of map_state has revealed = 1 and flag_state = 1 together.
C1_NoRevealedFlagged ==
    \A c \in DOMAIN map_state :
        ~(map_state[c].revealed = 1 /\ map_state[c].flag_state = 1)

\* C1 witness: a toggleFlag that read the cell as hidden has returned 'flagged'
\* although a concurrent reveal has revealed the cell before the flag statement ran.
C1_Witness ==
    /\ JustReturned
    /\ Done.result.status = "flagged"
    /\ Rev(CellOf(Done))

\* C2: once a cell's row has revealed = 1, every step leaves that row as it is:
\* no step changes, un-reveals or deletes it.
C2_RevealedImmutable ==
    [][\A c \in DOMAIN map_state :
          map_state[c].revealed = 1 =>
              (c \in DOMAIN map_state' /\ map_state'[c] = map_state[c])]_vars

\* C2 witness: the unflag statement of a toggleFlag has run on a cell that a reveal
\* had revealed since the toggle's check; the toggle has returned 'unflagged' and
\* the revealed row is in place.
C2_Witness ==
    /\ JustReturned
    /\ Done.result.status = "unflagged"
    /\ Rev(CellOf(Done))

\* C3: a row exists only for a cell that is revealed or flagged, before and after
\* every step; and the unflag statement of a toggleFlag, run on a cell that is not
\* revealed, leaves the cell without a row.
C3_RowIffRevealedOrFlagged ==
    [][/\ \A c \in DOMAIN map_state :
             map_state[c].revealed = 1 \/ map_state[c].flag_state = 1
       /\ \A c \in DOMAIN map_state' :
             map_state'[c].revealed = 1 \/ map_state'[c].flag_state = 1
       /\ \A t \in Tasks :
             (tasks[t].pc = "flag_unset" /\ Stepped(t) /\ ~Rev(CellOf(tasks[t])))
             => /\ Returns(t)
                /\ Ret.result.status = "unflagged"
                /\ CellOf(tasks[t]) \notin DOMAIN map_state']_vars

\* C3 witness: an unflag has returned and the cell has no row.
C3_Witness ==
    /\ JustReturned
    /\ Done.result.status = "unflagged"
    /\ CellOf(Done) \notin DOMAIN map_state

\* C4: the step in which a reveal returns changes the persisted scores by exactly
\* its outcome: +k for the player on 'revealed' with k cells, -50 for the player on
\* 'mine_hit', nothing on 'ignored'; nobody else's score changes, and no other step
\* of any handler changes a persisted score.
C4_ScoreExact ==
    [][/\ \A t \in Tasks :
            (Returns(t) /\ tasks[t].type = "clickCell") =>
               LET res == Ret.result
                   p == tasks[t].player
               IN CASE res.status = "revealed" ->
                         /\ res.scoreDelta = Len(res.revealedCells)
                         /\ players' = [players EXCEPT ![p] = @ + Len(res.revealedCells)]
                    [] res.status = "mine_hit" ->
                         /\ res.scoreDelta = -50
                         /\ players' = [players EXCEPT ![p] = @ - 50]
                    [] OTHER -> players' = players
       /\ (\A t \in Tasks : ~(Returns(t) /\ tasks[t].type = "clickCell"))
              => players' = players]_vars

\* C4 witness: a flood-fill of several cells has returned for one player, whose
\* persisted score is the number of cells, while a click of the other player is
\* still being handled and that player's persisted score is 0.
C4_Witness ==
    /\ JustReturned
    /\ Done.result.status = "revealed"
    /\ Len(Done.result.revealedCells) >= 2
    /\ players[Done.player] = Len(Done.result.revealedCells)
    /\ \E u \in Tasks :
          /\ tasks[u].type = "clickCell"
          /\ tasks[u].player # Done.player
          /\ players[tasks[u].player] = 0

\* C5: the score in the playerPenalty or scoreUpdate message is the player's new
\* total: it equals the persisted score and the session's cached score.
C5_ScoreMessageIsTotal ==
    (Len(sent) >= 1 /\ sent[1].kind = "send"
        /\ sent[1].msg.type \in {"playerPenalty", "scoreUpdate"})
    => /\ sent[1].msg.score = players[sent[1].to]
       /\ sent[1].msg.score = activePlayers[sent[1].to].score

\* C6: a reveal whose getCellState finds the cell revealed or flagged returns
\* 'ignored' in that step, which writes no cell row, changes no persisted or
\* cached score and sends nothing.
C6_IgnoredRevealNoEffect ==
    [][\A t \in Tasks :
          (tasks[t].pc = "reveal_get" /\ Stepped(t)
              /\ (Rev(CellOf(tasks[t])) \/ Flg(CellOf(tasks[t]))))
          => /\ Returns(t)
             /\ Ret.result = [status |-> "ignored"]
             /\ NoEffect]_vars

\* C6 witness: a click on a flagged cell has returned 'ignored' with the flag in
\* place.
C6_Witness ==
    /\ JustReturned
    /\ Done.type = "clickCell"
    /\ Done.result.status = "ignored"
    /\ Flg(CellOf(Done))

\* C7: when handlers run one at a time, a toggleFlag on a cell without a row
\* returns 'flagged' and leaves exactly the row (revealed 0, flag_state 1) added;
\* a toggleFlag on the same cell that follows it directly returns 'unflagged' and
\* leaves the table as it was before the first one, without a row for the cell;
\* the broadcast of each carries the cell with state 'flagged', then 'hidden'.
C7_ToggleTwice ==
    (JustReturned /\ Done.type = "flagCell") =>
        LET c == CellOf(Done)
            Broadcast(state) ==
                /\ Len(sent) = 1
                /\ sent[1].kind = "broadcast"
                /\ <<sent[1].cx, sent[1].cy>> = c
                /\ sent[1].msg = [type |-> "mapUpdate",
                                  cells |-> << [x |-> c[1], y |-> c[2], state |-> state] >>]
        IN /\ (c \notin DOMAIN Done.pre) =>
                 /\ Done.result.status = "flagged"
                 /\ map_state = WithRow(Done.pre, c, FlaggedRow)
                 /\ Broadcast("flagged")
           /\ (Len(returned) >= 2 /\ Before.type = "flagCell" /\ CellOf(Before) = c
                  /\ c \notin DOMAIN Before.pre) =>
                 /\ Before.result.status = "flagged"
                 /\ Done.result.status = "unflagged"
                 /\ c \notin DOMAIN map_state
                 /\ map_state = Before.pre
                 /\ Broadcast("hidden")

\* C7 witness: the second of two toggleFlag calls on a cell that had no row has
\* returned 'unflagged', and the table is the one before the first call.
C7_Witness ==
    /\ JustReturned
    /\ Len(returned) >= 2
    /\ Done.type = "flagCell" /\ Before.type = "flagCell"
    /\ CellOf(Before) = CellOf(Done)
    /\ CellOf(Done) \notin DOMAIN Before.pre
    /\ Done.result.status = "unflagged"
    /\ map_state = Before.pre

\* C8: a toggleFlag whose getCellState finds the cell revealed returns 'ignored'
\* in that step, which writes no cell row and sends no mapUpdate (nor anything
\* else).
C8_IgnoredToggleNoEffect ==
    [][\A t \in Tasks :
          (tasks[t].pc = "flag_get" /\ Stepped(t) /\ Rev(CellOf(tasks[t])))
          => /\ Returns(t)
             /\ Ret.result = [status |-> "ignored"]
             /\ NoEffect]_vars

\* C8 witness: a toggleFlag on a revealed cell has returned 'ignored'.
C8_Witness ==
    /\ JustReturned
    /\ Done.type = "flagCell"
    /\ Done.result.status = "ignored"
    /\ Rev(CellOf(Done))

\* C9: at the step in which a reveal returns, every cell that was flagged when its
\* message arrived and that no toggleFlag has written since is still flagged, is
\* not revealed, and is not in the reveal's result list.
C9_FlagSurvivesReveal ==
    [][\A t \in Tasks :
          (Returns(t) /\ tasks[t].type = "clickCell") =>
             \A c \in tasks[t].kept :
                /\ c \in DOMAIN map_state'
                /\ map_state'[c].flag_state = 1
                /\ map_state'[c].revealed = 0
                /\ Ret.result.status # "ignored" =>
                      \A i \in 1 .. Len(Ret.result.revealedCells) :
                          <<Ret.result.revealedCells[i].x,
                            Ret.result.revealedCells[i].y>> # c]_vars

\* C10: a reveal whose getCellState finds a mine cell with no revealed or flagged
\* row goes on to the mine branch without writing; its upsert leaves the table
\* with the row (revealed 1, is_mine 1, adjacent_mines NULL, flag_state 0) for
\* that cell and every other cell as it was; its last step writes no cell row and
\* returns 'mine_hit' with scoreDelta -50, stunDurationMs 3000 and the one cell
\* with state 'mine' and value -1.
C10_MineReveal ==
    [][\A t \in Tasks :
          LET tk == tasks[t]
              c == CellOf(tk)
          IN /\ (tk.pc = "reveal_get" /\ Stepped(t) /\ ~Rev(c) /\ ~Flg(c) /\ c \in mines)
                => /\ tasks'[t].pc = "mine_upsert"
                   /\ map_state' = map_state
             /\ (tk.pc = "mine_upsert" /\ Stepped(t))
                => /\ tasks'[t].pc = "mine_score"
                   /\ map_state' = WithRow(map_state, c, MineRow)
             /\ (tk.pc = "mine_score" /\ Stepped(t))
                => /\ Returns(t)
                   /\ map_state' = map_state
                   /\ Ret.result =
                         [status |-> "mine_hit", scoreDelta |-> -50, stunDurationMs |-> 3000,
                          revealedCells |-> << [x |-> tk.x, y |-> tk.y,
                                                state |-> "mine", value |-> -1] >>]]_vars

\* C10 witness: a click on a mine has returned 'mine_hit'; the table holds the
\* revealed-mine row for that cell and no other row.
C10_Witness ==
    /\ JustReturned
    /\ Done.result.status = "mine_hit"
    /\ DOMAIN map_state = {CellOf(Done)}
    /\ map_state[CellOf(Done)] = MineRow
    /\ players[Done.player] = -50

\* The coordinates of a list of cells are pairwise different.
DistinctCells(cells) ==
    \A i, j \in 1 .. Len(cells) : i # j => CellOf(cells[i]) # CellOf(cells[j])
\* Handler t is inside performSafeReveal.
InFlood(t) == tasks[t].pc \in {"flood_get", "flood_peek", "flood_upsert", "flood_score"}

\* C11: every flood-fill in flight, whatever the other handlers do in between,
\* holds each coordinate at most once in its result list, which has at most W * H
\* entries; the upserts it issues are one per entry, so at most W * H; the list it
\* returns has no coordinate twice; and every flood-fill in flight returns.
C11_FloodTerminates ==
    /\ [](\A t \in Tasks :
            /\ DistinctCells(tasks[t].cellsToReveal)
            /\ Len(tasks[t].cellsToReveal) <= MAP_WIDTH * MAP_HEIGHT
            /\ tasks[t].pending \subseteq 1 .. Len(tasks[t].cellsToReveal)
            /\ Cardinality(tasks[t].pending) <= MAP_WIDTH * MAP_HEIGHT)
    /\ [](\A i \in 1 .. Len(returned) :
            returned[i].result.status = "revealed" =>
               /\ DistinctCells(returned[i].result.revealedCells)
               /\ Len(returned[i].result.revealedCells) <= MAP_WIDTH * MAP_HEIGHT)
    /\ \A t \in Tasks : InFlood(t) ~> (tasks[t].pc = "idle")

\* C11 witness: a flood-fill has returned W * H cells (every cell of the map) while
\* another handler is in flight.
C11_Witness ==
    /\ JustReturned
    /\ Done.result.status = "revealed"
    /\ Len(Done.result.revealedCells) = MAP_WIDTH * MAP_HEIGHT
    /\ \E u \in Tasks : tasks[u].pc # "idle"

\* The distance from a to b on a ring of n numbers, the shorter way round.
RingDist(a, b, n) == Min((a - b + n) % n, (b - a + n) % n)
\* Cell c is in the area of interest of a session: its cursor +- the viewport radii,
\* wrap-around.
InAreaOfInterest(session, c) ==
    /\ RingDist(c[1], session.x, Num(MAP_WIDTH)) <= VIEWPORT_RADIUS_X
    /\ RingDist(c[2], session.y, Num(MAP_HEIGHT)) <= VIEWPORT_RADIUS_Y
\* The sessions the step that led to this state has delivered a message of the
\* type to by a broadcast.
BroadcastTo(type) ==
    UNION { sent[i].to : i \in { j \in 1 .. Len(sent) :
                sent[j].kind = "broadcast" /\ sent[j].msg.type = type } }
\* The cells a returned action has changed.
ChangedCells(r) ==
    IF r.result.status \in {"revealed", "mine_hit"}
    THEN { CellOf(r.result.revealedCells[i]) : i \in 1 .. Len(r.result.revealedCells) }
    ELSE IF r.result.status \in {"flagged", "unflagged"}
         THEN { CellOf(r.result.cellState) }
         ELSE {}

\* C12: when a reveal or a flag toggle has returned with changed cells, every
\* session with an open transport whose area of interest contains at least one of
\* the changed cells has been sent the mapUpdate of the action.
C12_MapUpdateReachesViewers ==
    JustReturned =>
        \A p \in DOMAIN activePlayers :
            (IsOpenSocket(p) /\ \E c \in ChangedCells(Done) : InAreaOfInterest(activePlayers[p], c))
            => p \in BroadcastTo("mapUpdate")

\* The broadcasts of the step that led to this state.
Broadcasts == { sent[i] : i \in { j \in 1 .. Len(sent) : sent[j].kind = "broadcast" } }
\* The registered sessions with an open transport, by player id.
OpenSessions ==
    { wsToPlayerId[ws] : ws \in { u \in DOMAIN wsToPlayerId : IsOpenSocket(u) } }
    \cap DOMAIN activePlayers
\* The wrap-aware interval test for centre +- radius modulo n.
WrapTest(v, centre, radius, n) ==
    LET min == (centre - radius + n) % n
        max == (centre + radius) % n
    IN (min <= max /\ min <= v /\ v <= max) \/ (min > max /\ (v >= min \/ v <= max))
\* The cursor of player id is in the region centred on (cx, cy).
CursorInRegion(id, cx, cy) ==
    /\ WrapTest(activePlayers[id].x, cx, VIEWPORT_RADIUS_X, Num(MAP_WIDTH))
    /\ WrapTest(activePlayers[id].y, cy, VIEWPORT_RADIUS_Y, Num(MAP_HEIGHT))

\* C13: a broadcast centred on (cx, cy) is delivered to exactly the registered
\* sessions with an open transport whose cursor passes the wrap-aware interval test
\* for the region around (cx, cy), without the excluded id if one is given.
C13_BroadcastExact ==
    \A b \in Broadcasts :
        b.to = { id \in OpenSessions : id # b.excl /\ CursorInRegion(id, b.cx, b.cy) }

\* C13 witness: a broadcast whose x interval runs over the edge of the map has been
\* delivered to a session and not to the excluded one, whose cursor is in the region.
C13_Witness ==
    \E b \in Broadcasts :
        /\ (b.cx - VIEWPORT_RADIUS_X + Num(MAP_WIDTH)) % Num(MAP_WIDTH)
              > (b.cx + VIEWPORT_RADIUS_X) % Num(MAP_WIDTH)
        /\ b.to # {}
        /\ b.excl \in OpenSessions
        /\ CursorInRegion(b.excl, b.cx, b.cy)

\* The messages of the step that led to this state that session p has been sent,
\* by their position in the step's output.
Delivered(p) ==
    { i \in 1 .. Len(sent) :
        \/ sent[i].kind = "send" /\ sent[i].to = p
        \/ sent[i].kind = "broadcast" /\ p \in sent[i].to }
\* The step that led to this state has ended the connect handler of a transport.
JustConnected == returned # <<>> /\ Done.type = "connect"
\* The centre of the map, where a new session's cursor is placed.
CentreX == Num(MAP_WIDTH \div 2)
CentreY == Num(MAP_HEIGHT \div 2)
\* The registered sessions other than c whose cursor is in the initial area of
\* interest of a new session.
InRegionOf(c) ==
    { p \in DOMAIN activePlayers \ {c} : CursorInRegion(p, CentreX, CentreY) }

\* C14: when the connect handler of a new session C has ended, every other session
\* with an open transport whose cursor is in C's initial area of interest has been
\* sent exactly one playerJoined with C's id and C none; no session whose cursor is
\* outside that region has been sent anything; the players list of C's initialState
\* is the set of the in-region sessions with their cursors; and playerJoined with
\* C's id is sent at no other step, and the connect handler of C does not end twice.
C14_PlayerJoined ==
    /\ [](JustConnected =>
            LET c == Done.ws
                joined == { i \in 1 .. Len(sent) :
                              sent[i].msg.type = "playerJoined" /\ sent[i].msg.id = c }
            IN /\ \A p \in InRegionOf(c) \cap OpenSessions :
                     Cardinality(Delivered(p) \cap joined) = 1
               /\ Delivered(c) \cap joined = {}
               /\ \A p \in DOMAIN activePlayers \ (InRegionOf(c) \cup {c}) : Delivered(p) = {}
               /\ \A i \in Delivered(c) :
                     sent[i].msg.type = "initialState" =>
                        sent[i].msg.players =
                           { [id |-> p, x |-> activePlayers[p].x, y |-> activePlayers[p].y] :
                             p \in InRegionOf(c) })
    /\ [](\A i \in 1 .. Len(sent) :
            sent[i].msg.type = "playerJoined" => JustConnected /\ Done.ws = sent[i].msg.id)
    /\ [][\A ws \in PlayerIds : connects[ws].pc = "done" => connects'[ws].pc = "done"]_vars

\* C14 witness: the connect handler of a new session has ended, the session has been
\* sent its initialState and another session, whose cursor is in the region, its
\* playerJoined.
C14_Witness ==
    /\ JustConnected
    /\ \E i \in Delivered(Done.ws) : sent[i].msg.type = "initialState" /\ sent[i].msg.players # {}
    /\ \E p \in InRegionOf(Done.ws) : Delivered(p) # {}

\* The client-facing cell of the persisted row of cell d.
Projection(d) ==
    LET row == map_state[d]
    IN IF row.revealed = 1 /\ row.is_mine = 1
       THEN [x |-> d[1], y |-> d[2], state |-> "mine", value |-> -1]
       ELSE IF row.revealed = 1
            THEN [x |-> d[1], y |-> d[2], state |-> "revealed", value |-> row.adjacent_mines]
            ELSE IF row.flag_state = 1
                 THEN [x |-> d[1], y |-> d[2], state |-> "flagged", value |-> NULL]
                 ELSE [x |-> d[1], y |-> d[2], state |-> "hidden", value |-> NULL]
\* The persisted cells inside the region centred on the centre of the map.
PersistedInRegion ==
    { d \in DOMAIN map_state :
        /\ WrapTest(d[1], CentreX, VIEWPORT_RADIUS_X, Num(MAP_WIDTH))
        /\ WrapTest(d[2], CentreY, VIEWPORT_RADIUS_Y, Num(MAP_HEIGHT)) }
\* The initialState messages the step that led to this state has sent to session c.
InitialStates(c) ==
    { sent[i].msg : i \in { j \in Delivered(c) : sent[j].msg.type = "initialState" } }

\* C15: the initialState sent to a new session carries self = (W/2, H/2), the
\* player's persisted score, and as cell list the projection of exactly the
\* persisted cells inside the region centred on (W/2, H/2).
C15_InitialState ==
    JustConnected =>
        \A m \in InitialStates(Done.ws) :
            /\ m.self = [x |-> CentreX, y |-> CentreY]
            /\ m.score = players[m.playerId]
            /\ m.cells = { Projection(d) : d \in PersistedInRegion }

\* The step handles the close of transport ws; in the state it leads to, the close
\* of a transport has just been handled.
HandlesClose(ws) ==
    /\ returned' # <<>>
    /\ Ret.type = "close"
    /\ Ret.ws = ws
JustClosed == returned # <<>> /\ Done.type = "close"
\* The tables and both maps of the registry are what they were.
SameState ==
    /\ map_state' = map_state
    /\ players' = players
    /\ activePlayers' = activePlayers
    /\ wsToPlayerId' = wsToPlayerId

\* C16: a step that handles the close of a transport with a session takes the session
\* out of both registry maps and broadcasts exactly one playerLeft with its id, centred
\* on its last cursor, and nothing else; after any handling the transport has no
\* session; and a step that handles the close of a transport without a session (as
\* every second handling that follows the first does) changes no state and sends
\* nothing.
C16_DisconnectIdempotent ==
    /\ [][\A ws \in PlayerIds :
            HandlesClose(ws) =>
               IF ws \in DOMAIN wsToPlayerId
               THEN LET id == wsToPlayerId[ws]
                    IN /\ ws \notin DOMAIN wsToPlayerId'
                       /\ id \notin DOMAIN activePlayers'
                       /\ \A u \in DOMAIN wsToPlayerId' :
                             wsToPlayerId'[u] = wsToPlayerId[u]
                       /\ DOMAIN wsToPlayerId' = DOMAIN wsToPlayerId \ {ws}
                       /\ \A q \in DOMAIN activePlayers' : activePlayers'[q] = activePlayers[q]
                       /\ DOMAIN activePlayers' = DOMAIN activePlayers \ {id}
                       /\ Len(sent') = 1
                       /\ sent'[1].kind = "broadcast"
                       /\ sent'[1].msg = [type |-> "playerLeft", id |-> id]
                       /\ sent'[1].cx = activePlayers[id].x
                       /\ sent'[1].cy = activePlayers[id].y
               ELSE SameState /\ sent' = <<>>]_vars
    /\ [](JustClosed => Done.ws \notin DOMAIN wsToPlayerId)
    /\ [][\A ws \in PlayerIds :
            (JustClosed /\ Done.ws = ws /\ HandlesClose(ws)) => SameState /\ sent' = <<>>]_vars

\* C16 witness: the close of a transport whose connect handler had registered a session
\* has been handled again: the transport has no session and nothing has been sent.
C16_Witness ==
    /\ JustClosed
    /\ Done.result.again
    /\ connects[Done.ws].pc = "done"
    /\ Done.ws \notin DOMAIN wsToPlayerId
    /\ Done.ws \in DOMAIN players
    /\ sent = <<>>

\* Every handler started for transport ws has run to its end: its connect handler,
\* and the message handlers of its player.
HandlersDone(ws) ==
    /\ connects[ws].pc = "done"
    /\ \A t \in Tasks : tasks[t].pc # "idle" => tasks[t].player # ws

\* C17: once the close event of a transport has been handled and every handler
\* started for the transport has run to its end, the registry holds no session for
\* the transport, in whatever order the close event and the steps of the connect
\* handler came.
C17_SessionDestroyed ==
    \A ws \in PlayerIds :
        (sockets[ws] = "CLOSED" /\ HandlersDone(ws)) =>
            /\ ws \notin DOMAIN wsToPlayerId
            /\ \A id \in DOMAIN activePlayers : id # ws

\* The number v clamped to a dimension of n cells: at least 0 and at most n - 1.
Clamped(v, n) == IF v < 0 THEN 0 ELSE IF v > Num(n - 1) THEN Num(n - 1) ELSE v
\* The step that led to this state has handled an updatePosition message with
\* numbers; Done holds the transport and the numbers.
JustMoved == returned # <<>> /\ Done.type = "updatePosition" /\ Done.result.status = "moved"

\* C18: in every reachable state the cursor of every session is a number with
\* 0 <= x < W and 0 <= y < H, whatever numbers (negative, beyond the map, not
\* integer) the updatePosition messages carried; and after an updatePosition the
\* cursor of the session is the input clamped: 0 below 0, W - 1 (H - 1) above it,
\* else the input.
C18_CursorClamped ==
    /\ \A id \in DOMAIN activePlayers :
          /\ 0 <= activePlayers[id].x /\ activePlayers[id].x < Num(MAP_WIDTH)
          /\ 0 <= activePlayers[id].y /\ activePlayers[id].y < Num(MAP_HEIGHT)
    /\ JustMoved =>
          /\ activePlayers[wsToPlayerId[Done.ws]].x = Clamped(Done.x, MAP_WIDTH)
          /\ activePlayers[wsToPlayerId[Done.ws]].y = Clamped(Done.y, MAP_HEIGHT)

\* C18 witness: an updatePosition with x beyond the map and y negative has been
\* handled, and the cursor is at (W - 1, 0).
C18_Witness ==
    /\ JustMoved
    /\ Done.x >= Num(MAP_WIDTH)
    /\ Done.y < 0
    /\ activePlayers[wsToPlayerId[Done.ws]].x = Num(MAP_WIDTH - 1)
    /\ activePlayers[wsToPlayerId[Done.ws]].y = 0

\* The number v is an integer; it is the coordinate of a cell of a dimension of n.
IsInteger(v) == v # NULL /\ v % Unit = 0
IsCoordinate(v, n) == IsInteger(v) /\ 0 <= v /\ v < Num(n)

\* C19: a clickCell or flagCell message is in the engine only with integers x and y,
\* 0 <= x < W and 0 <= y < H; so every handler in flight has such coordinates, and
\* no message with other coordinates has left a row in map_state or changed a score.
C19_OnlyIntegerCells ==
    /\ \A t \in Tasks :
          tasks[t].pc # "idle" =>
             IsCoordinate(tasks[t].x, MAP_WIDTH) /\ IsCoordinate(tasks[t].y, MAP_HEIGHT)
    /\ \A c \in DOMAIN map_state :
          IsCoordinate(c[1], MAP_WIDTH) /\ IsCoordinate(c[2], MAP_HEIGHT)

\* The step that led to this state has dropped a message of transport Done.ws.
JustRejected == returned # <<>> /\ Done.result.status = "rejected"

\* C20: when a message has been dropped (bad coordinates, unknown type, text that
\* is no JSON, no data), its sender has been sent exactly one error message, and
\* is still registered with its transport open.
C20_ErrorReply ==
    JustRejected =>
        /\ Cardinality({ i \in Delivered(Done.ws) : sent[i].msg.type = "error" }) = 1
        /\ Done.ws \in DOMAIN wsToPlayerId
        /\ wsToPlayerId[Done.ws] \in DOMAIN activePlayers
        /\ IsOpenSocket(Done.ws)

\* The step that led to this state has ended a handler whose engine call threw.
JustFailed == returned # <<>> /\ Done.result.status = "error"

Candidates(b) ==
    { id \in DOMAIN activePlayers : id # b.excl /\ CursorInRegion(id, b.cx, b.cy) }
\* The step that led to this state has broadcast a message that did not go out to
\* session id, which is in the region.
DeliveryFailed(id) == \E b \in Broadcasts : id \in Candidates(b) \ b.to

\* C22: when a broadcast does not go out to one session of its region, every other
\* session of the region with an open transport still gets it, and the session the
\* delivery failed for is removed from the registry afterwards.
C22_FailedDelivery ==
    /\ [](\A b \in Broadcasts : Candidates(b) \cap OpenSessions \subseteq b.to)
    /\ \A id \in PlayerIds : DeliveryFailed(id) ~> (id \notin DOMAIN activePlayers)

\* The step that led to this state has ended a clickCell that revealed cells.
JustRevealed ==
    /\ returned # <<>>
    /\ Done.type = "clickCell"
    /\ Done.result.status \in {"mine_hit", "revealed"}
\* The positions, in the output of the step, of the score messages and of the map
\* updates that session p has been sent.
ScoreMessages(p) ==
    { i \in Delivered(p) : sent[i].msg.type \in {"playerPenalty", "scoreUpdate"} }
MapUpdates(p) == { i \in Delivered(p) : sent[i].msg.type = "mapUpdate" }

\* C23: when a clickCell has revealed cells, its sender is sent one playerPenalty
\* (mine hit) or scoreUpdate (safe reveal) and at most one mapUpdate, with the cells
\* of the action, and the score message comes before the mapUpdate.
C23_ScoreBeforeMapUpdate ==
    JustRevealed =>
        /\ Cardinality(ScoreMessages(Done.player)) = 1
        /\ Cardinality(MapUpdates(Done.player)) <= 1
        /\ \A i \in ScoreMessages(Done.player) :
              /\ sent[i].msg.type = (IF Done.result.status = "mine_hit" THEN "playerPenalty"
                                                                        ELSE "scoreUpdate")
              /\ \A j \in MapUpdates(Done.player) :
                    i < j /\ sent[j].msg.cells = Done.result.revealedCells

\* C23 witness: a flood-fill of another handler's neighbourhood has ended while a
\* second handler is in flight, and its sender has been sent the scoreUpdate and
\* then the mapUpdate.
C23_Witness ==
    /\ JustRevealed
    /\ Done.result.status = "revealed"
    /\ ScoreMessages(Done.player) = {1}
    /\ MapUpdates(Done.player) = {2}
    /\ \E u \in Tasks : tasks[u].pc # "idle"

\* The region query has just returned.
JustQueried == returned # <<>> /\ Done.type = "region"
\* v is between lo and hi if lo <= hi, and else at or above lo or at or below hi.
Between(v, lo, hi) ==
    \/ lo <= hi /\ lo <= v /\ v <= hi
    \/ ~(lo <= hi) /\ (v >= lo \/ v <= hi)
\* The cells of the rows a query has returned.
CellsOf(rows) == { <<r.x, r.y>> : r \in rows }
\* Cell c has a row that says it is revealed.
RowSaysRevealed(c) == c \in DOMAIN map_state /\ map_state[c].revealed = 1

\* C24: getCellStatesInRegion(xMin, yMin, xMax, yMax) returns the row of exactly the
\* cells that have one, each revealed or flagged, whose x is between xMin and xMax
\* and whose y is between yMin and yMax, an interval with lo > hi running over the
\* edge; so with (1, 1) and (W-1, H-1) revealed, the query of (W-2, H-2, 2, 2)
\* returns both.
C24_RegionQuery ==
    JustQueried =>
        /\ CellsOf(Done.result) =
               { c \in DOMAIN map_state :
                   /\ map_state[c].revealed = 1 \/ map_state[c].flag_state = 1
                   /\ Between(c[1], Done.xMin, Done.xMax)
                   /\ Between(c[2], Done.yMin, Done.yMax) }
        /\ \A r \in Done.result :
              map_state[<<r.x, r.y>>] = [revealed |-> r.revealed, is_mine |-> r.is_mine,
                                         adjacent_mines |-> r.adjacent_mines,
                                         flag_state |-> r.flag_state]
        /\ Cardinality(Done.result) = Cardinality(CellsOf(Done.result))
        /\ ( /\ RowSaysRevealed(<<Num(1), Num(1)>>)
             /\ RowSaysRevealed(<<Num(MAP_WIDTH - 1), Num(MAP_HEIGHT - 1)>>)
             /\ Done.xMin = Num(MAP_WIDTH - 2) /\ Done.xMax = Num(2)
             /\ Done.yMin = Num(MAP_HEIGHT - 2) /\ Done.yMax = Num(2) )
           => {<<Num(1), Num(1)>>, <<Num(MAP_WIDTH - 1), Num(MAP_HEIGHT - 1)>>}
                  \subseteq CellsOf(Done.result)

\* C24 witness: with (1, 1) and (W-1, H-1) revealed and a flag outside the rectangle,
\* the query of (W-2, H-2, 2, 2), which runs over both edges, has returned the two
\* revealed cells and not the flag.
C24_Witness ==
    /\ JustQueried
    /\ Done.xMin = Num(MAP_WIDTH - 2) /\ Done.xMax = Num(2)
    /\ Done.yMin = Num(MAP_HEIGHT - 2) /\ Done.yMax = Num(2)
    /\ Done.xMin > Done.xMax /\ Done.yMin > Done.yMax
    /\ CellsOf(Done.result) = {<<Num(1), Num(1)>>, <<Num(MAP_WIDTH - 1), Num(MAP_HEIGHT - 1)>>}
    /\ \E c \in DOMAIN map_state : map_state[c].flag_state = 1 /\ c \notin CellsOf(Done.result)

\* calculateAdjacentMines has just returned.
JustCounted == returned # <<>> /\ Done.type = "adjacent"
\* The offsets to the eight neighbours.
EightOffsets == ({-1, 0, 1} \X {-1, 0, 1}) \ {<<0, 0>>}
\* The offsets from (x, y) that lead, modulo the width and the height, to a mine.
MinedOffsets(x, y) ==
    { o \in EightOffsets :
        <<(x + Num(o[1])) % Num(MAP_WIDTH), (y + Num(o[2])) % Num(MAP_HEIGHT)>> \in mines }

\* C25: for every cell (x, y) of the map, calculateAdjacentMines(x, y) is the number
\* of the eight offsets (dx, dy) for which ((x + dx) mod W, (y + dy) mod H) is a
\* mine, so the cells on the edges count their neighbours across the wrap-around;
\* it is in 0 .. 8.
C25_AdjacentMines ==
    JustCounted =>
        /\ Done.result = Cardinality(MinedOffsets(Done.x, Done.y))
        /\ Done.result \in 0 .. 8

\* C25 witness: the count of the corner (0, 0) is 8: its eight neighbours, five of
\* them across an edge, are mines.
C25_Witness ==
    /\ JustCounted
    /\ Done.x = Num(0) /\ Done.y = Num(0)
    /\ Done.result = 8
    /\ <<Num(MAP_WIDTH - 1), Num(MAP_HEIGHT - 1)>> \in mines
    /\ <<Num(2), Num(0)>> \notin mines

\* The cells that the i-th returned handler has reported as newly revealed.
Reported(i) ==
    IF returned[i].type = "clickCell" /\ returned[i].result.status \in {"mine_hit", "revealed"}
    THEN { <<returned[i].result.revealedCells[k].x, returned[i].result.revealedCells[k].y>> :
             k \in 1 .. Len(returned[i].result.revealedCells) }
    ELSE {}

\* C26: whatever the interleaving of the reveals in flight, the lists of revealed
\* cells of two reveal invocations are disjoint: a cell is reported as newly
\* revealed by at most one invocation.
C26_DisjointReveals ==
    \A i, j \in 1 .. Len(returned) : i # j => Reported(i) \cap Reported(j) = {}

\* The row of cell c says it is a revealed mine.
HasMineRow(db, c) == c \in DOMAIN db /\ db[c] = MineRow

\* C27: the score statement of a mine hit is issued only when the mine's row is
\* persisted, statements that fail included: whenever a persisted score goes down
\* by 50, it is the score of the player of a handler in its mine branch, and the row
\* of the cell it clicked says revealed mine before and after the step.
C27_MineBeforePenalty ==
    /\ [](\A t \in Tasks :
            tasks[t].pc = "mine_score" => HasMineRow(map_state, CellOf(tasks[t])))
    /\ [][\A p \in DOMAIN players :
            players'[p] = players[p] + SCORE_HIT_MINE_PENALTY =>
                \E t \in Tasks :
                    /\ tasks[t].pc = "mine_score" /\ tasks[t].player = p /\ Returns(t)
                    /\ HasMineRow(map_state, CellOf(tasks[t]))
                    /\ HasMineRow(map_state', CellOf(tasks[t]))]_vars

\* C27 witness: a mine hit has returned: the row of the mine is persisted and the
\* persisted score of the player is the penalty.
C27_Witness ==
    /\ returned # <<>>
    /\ Done.type = "clickCell"
    /\ Done.result.status = "mine_hit"
    /\ HasMineRow(map_state, CellOf(Done))
    /\ players[Done.player] = SCORE_HIT_MINE_PENALTY

\* Handler t ends, in this step, a reveal whose sender's transport is no longer open.
ReturnsClosed(t) ==
    /\ Returns(t)
    /\ tasks[t].type = "clickCell"
    /\ ~IsOpenSocket(tasks[t].player)
\* The row of a safe cell revealed with the value v.
SafeRow(v) == [revealed |-> 1, is_mine |-> 0, adjacent_mines |-> v, flag_state |-> 0]

\* C28: a session whose transport is not open is sent nothing, and a reveal whose
\* sender's transport has closed while it was in flight ends as any other: its
\* flood-fill returns the cells it listed, their rows are persisted and the persisted
\* score has gone up by their number; a mine hit has its row and its penalty.
C28_RevealOutlivesSession ==
    /\ [](\A p \in PlayerIds : ~IsOpenSocket(p) => Delivered(p) = {})
    /\ [][\A t \in Tasks : ReturnsClosed(t) =>
            /\ tasks[t].pc = "flood_score" =>
                  /\ Ret.result.status = "revealed"
                  /\ players'[tasks[t].player] =
                         players[tasks[t].player] + Len(Ret.result.revealedCells) * SCORE_REVEAL_SAFE
                  /\ \A k \in 1 .. Len(Ret.result.revealedCells) :
                        LET cell == Ret.result.revealedCells[k]
                        IN /\ <<cell.x, cell.y>> \in DOMAIN map_state'
                           /\ map_state'[<<cell.x, cell.y>>] = SafeRow(cell.value)
            /\ tasks[t].pc = "mine_score" =>
                  /\ Ret.result.status = "mine_hit"
                  /\ players'[tasks[t].player] = players[tasks[t].player] + SCORE_HIT_MINE_PENALTY
                  /\ HasMineRow(map_state', CellOf(tasks[t]))]_vars

\* C28 witness: a flood-fill of several cells has ended after its sender's close was
\* handled: the sender, no longer registered, is sent nothing, the persisted score is
\* the number of cells, and the mapUpdate goes to another session.
C28_Witness ==
    /\ returned # <<>>
    /\ Done.type = "clickCell"
    /\ Done.result.status = "revealed"
    /\ Len(Done.result.revealedCells) >= 2
    /\ sockets[Done.player] = "CLOSED"
    /\ Done.player \notin DOMAIN activePlayers
    /\ players[Done.player] = Len(Done.result.revealedCells)
    /\ Delivered(Done.player) = {}
    /\ \E b \in Broadcasts : b.msg.type = "mapUpdate" /\ b.to # {}

\* The cells the eight offsets lead to from c, across the edges.
Neighbours(c) ==
    { <<(c[1] + Num(o[1])) % Num(MAP_WIDTH), (c[2] + Num(o[2])) % Num(MAP_HEIGHT)>> :
        o \in EightOffsets }
\* Cell c is neither revealed nor flagged in the table db.
Untouched(db, c) == c \notin DOMAIN db \/ (db[c].revealed # 1 /\ db[c].flag_state # 1)
\* The cells of S without a mine next to them.
Zeros(S) == { c \in S : MinedOffsets(c[1], c[2]) = {} }
\* The smallest set that contains S and, for each of its cells without a mine next
\* to it, the neighbours that are neither revealed nor flagged in db.
RECURSIVE Closure(_, _)
Closure(S, db) ==
    LET T == S \cup { n \in UNION { Neighbours(c) : c \in Zeros(S) } : Untouched(db, n) }
    IN IF T = S THEN S ELSE Closure(T, db)
\* A clickCell on a safe cell that was neither revealed nor flagged when the message
\* arrived has been handled, with no other handler in between.
JustRevealedSafe ==
    /\ JustReturned
    /\ Done.type = "clickCell"
    /\ CellOf(Done) \notin mines
    /\ Untouched(Done.pre, CellOf(Done))

\* C29: handled alone, a reveal of a safe cell s that is neither revealed nor flagged
\* returns, each once, the cells of the smallest set S that contains s and, for every
\* cell of S without a mine next to it, its neighbours across the edges that are
\* neither revealed nor flagged; so from a cell without a mine next to it and with
\* eight such neighbours at least 9 cells are returned, and from such a cell at (0, 0)
\* the cell (W-1, H-1), if neither revealed nor flagged, is returned.
C29_FloodIsClosure ==
    JustRevealedSafe =>
        LET s == CellOf(Done)
            S == Reported(Len(returned))
            corner == <<Num(MAP_WIDTH - 1), Num(MAP_HEIGHT - 1)>>
        IN /\ Done.result.status = "revealed"
           /\ S = Closure({s}, Done.pre)
           /\ Len(Done.result.revealedCells) = Cardinality(S)
           /\ ( /\ Zeros({s}) = {s}
                /\ Cardinality(Neighbours(s) \ {s}) = 8
                /\ \A n \in Neighbours(s) : Untouched(Done.pre, n) )
              => Cardinality(S) >= 9
           /\ (s = <<Num(0), Num(0)>> /\ Zeros({s}) = {s} /\ Untouched(Done.pre, corner))
              => corner \in S

\* C29 witness: with a mine on the field, the reveal of (0, 0), which has no mine next
\* to it and eight neighbours neither revealed nor flagged, has returned 9 cells,
\* (W-1, H-1) among them, and has left a safe cell hidden.
C29_Witness ==
    /\ JustRevealedSafe
    /\ CellOf(Done) = <<Num(0), Num(0)>>
    /\ Len(Done.result.revealedCells) = 9
    /\ <<Num(MAP_WIDTH - 1), Num(MAP_HEIGHT - 1)>> \in Reported(Len(returned))
    /\ mines # {}
    /\ \E c \in Cells \ mines : Untouched(map_state, c)

\* What the oracle says of cell c: 1 for a mine, else 0; the number of offsets from c
\* that lead to a mine.
OracleMine(c) == IF c \in mines THEN 1 ELSE 0
OracleCount(c) == Cardinality(MinedOffsets(c[1], c[2]))

\* C30: in any interleaving, every row with revealed = 1 has is_mine as the oracle
\* says and, for a safe cell, the oracle's count as adjacent_mines; every cell a
\* reveal reports as revealed is no mine and carries the oracle's count, and a cell
\* it reports as a mine is one: a flood-fill never reveals a mine.
C30_RevealedMatchesOracle ==
    /\ \A c \in DOMAIN map_state :
          map_state[c].revealed = 1 =>
              /\ map_state[c].is_mine = OracleMine(c)
              /\ c \notin mines => map_state[c].adjacent_mines = OracleCount(c)
    /\ \A t \in Tasks : \A k \in 1 .. Len(tasks[t].cellsToReveal) :
          <<tasks[t].cellsToReveal[k].x, tasks[t].cellsToReveal[k].y>> \notin mines
    /\ (returned # <<>> /\ Done.type = "clickCell"
                        /\ Done.result.status \in {"mine_hit", "revealed"}) =>
          \A k \in 1 .. Len(Done.result.revealedCells) :
              LET cell == Done.result.revealedCells[k]
              IN IF cell.state = "revealed"
                 THEN <<cell.x, cell.y>> \notin mines /\ cell.value = OracleCount(<<cell.x, cell.y>>)
                 ELSE cell.state = "mine" /\ <<cell.x, cell.y>> \in mines

\* C30 witness: while another handler is in flight, a flood-fill has ended next to a
\* hidden mine: it has reported a cell with a count of at least 1, the row of that
\* cell is persisted with the count, and the mine has no row.
C30_Witness ==
    /\ returned # <<>>
    /\ Done.type = "clickCell"
    /\ Done.result.status = "revealed"
    /\ \E u \in Tasks : tasks[u].pc # "idle"
    /\ \E m \in mines : m \notin DOMAIN map_state
    /\ \E k \in 1 .. Len(Done.result.revealedCells) :
          LET cell == Done.result.revealedCells[k]
          IN /\ cell.value >= 1
             /\ map_state[<<cell.x, cell.y>>] = SafeRow(cell.value)

\* The transport held by the session of player p (player.ws): the one the id was
\* minted for.
SessionTransport(p) == CHOOSE ws \in PlayerIds : NewPlayerId(ws) = p

\* C31: in every reachable state the two maps of the registry are inverse of each
\* other: transport t maps to player p exactly if p has a session and its transport
\* is t; no two transports map to the same player.
C31_RegistryMapsInverse ==
    /\ \A t \in PlayerIds, p \in PlayerIds :
          (t \in DOMAIN wsToPlayerId /\ wsToPlayerId[t] = p)
              <=> (p \in DOMAIN activePlayers /\ SessionTransport(p) = t)
    /\ \A t, u \in DOMAIN wsToPlayerId : wsToPlayerId[t] = wsToPlayerId[u] => t = u
    /\ DOMAIN wsToPlayerId \subseteq PlayerIds
    /\ DOMAIN activePlayers \subseteq PlayerIds

\* C31 witness: the close of a registered transport has been handled, with its
\* playerLeft sent to the session of the other transport, which is still in both maps.
C31_Witness ==
    /\ JustClosed
    /\ Done.ws \notin DOMAIN wsToPlayerId
    /\ Done.ws \notin DOMAIN activePlayers
    /\ \E b \in Broadcasts : b.msg.type = "playerLeft" /\ b.msg.id = Done.ws /\ b.to # {}
    /\ \E t \in DOMAIN wsToPlayerId : wsToPlayerId[t] \in DOMAIN activePlayers

\* Handler t's neighbour loop reads, in this step, the state of the cell Peeked(t).
Peeks(t) == tasks[t].pc = "flood_peek" /\ Stepped(t)
Peeked(t) ==
    << (tasks[t].cur[1] + Num(Offsets[tasks[t].nbr][1]) + Num(MAP_WIDTH)) % Num(MAP_WIDTH),
       (tasks[t].cur[2] + Num(Offsets[tasks[t].nbr][2]) + Num(MAP_HEIGHT)) % Num(MAP_HEIGHT) >>

\* C32: a cell that the neighbour loop of a flood-fill has peeked is in the visited
\* set afterwards, whatever the peek showed, and the loop peeks no cell that the same
\* flood-fill has peeked before.
C32_PeekedOnce ==
    [][\A t \in Tasks : Peeks(t) =>
          /\ tasks'[t].pc \in {"flood_peek", "flood_get"} => Peeked(t) \in tasks'[t].visited
          /\ Peeked(t) \notin tasks[t].peeked]_vars

\* Handler t, which handles a flagCell, takes the step.
FlagSteps(t) ==
    /\ Stepped(t)
    /\ tasks[t].type = "flagCell" \/ (tasks[t].pc = "idle" /\ tasks'[t].type = "flagCell")
\* The cached score of every session.
CachedScores == [p \in DOMAIN activePlayers |-> activePlayers[p].score]
\* The positions, in the output of the step taken, of the score messages.
ScoreMessagesSent ==
    { i \in 1 .. Len(sent') : sent'[i].msg.type \in {"playerPenalty", "scoreUpdate"} }

\* C33: no step of the handling of a flagCell, whatever toggleFlag returns, changes a
\* persisted score or a cached score or sends a score message.
C33_FlagLeavesScores ==
    [][\A t \in Tasks : FlagSteps(t) =>
          /\ players' = players
          /\ CachedScores' = CachedScores
          /\ ScoreMessagesSent = {}]_vars

\* C33 witness: a flagCell has flagged a cell and its mapUpdate has been sent, with a
\* score other than 0 persisted and cached.
C33_Witness ==
    /\ returned # <<>>
    /\ Done.type = "flagCell"
    /\ Done.result.status = "flagged"
    /\ \E b \in Broadcasts : b.msg.type = "mapUpdate" /\ b.to # {}
    /\ \E p \in DOMAIN players : players[p] # 0
    /\ \E p \in DOMAIN activePlayers : activePlayers[p].score # 0

\* A clickCell of player p is being handled.
Clicking(p) == \E t \in Tasks : tasks[t].pc # "idle" /\ tasks[t].type = "clickCell" /\ tasks[t].player = p

\* C34: whenever no clickCell of a player with a session is being handled, the cached
\* score of the session is the persisted score of the player, however the clickCell
\* messages of the player have overlapped.
C34_CachedIsPersisted ==
    \A p \in DOMAIN activePlayers :
        ~Clicking(p) => (p \in DOMAIN players /\ activePlayers[p].score = players[p])

\* C34 witness: two clickCell messages of one player have overlapped, so that both
\* have reported the same cell, and both have ended: the cached score is the
\* persisted one, the sum of the two deltas.
C34_Witness ==
    /\ Len(returned) = 2
    /\ \A t \in Tasks : tasks[t].pc = "idle"
    /\ returned[1].player = returned[2].player
    /\ Reported(1) \cap Reported(2) # {}
    /\ players[returned[1].player] = returned[1].result.scoreDelta + returned[2].result.scoreDelta
    /\ activePlayers[returned[1].player].score = players[returned[1].player]

\* The handleConnect call of transport ws has not sent its initialState yet.
BeforeInitialState(ws) == connects[ws].pc # "done"

\* C35: initialState is the first message a session is sent: as long as the
\* handleConnect call of its transport has not sent it, the session is sent nothing,
\* no mapUpdate, playerJoined, playerLeft or playerPositionUpdate in particular.
C35_InitialStateFirst ==
    \A ws \in PlayerIds : BeforeInitialState(ws) => Delivered(ws) = {}

\* The playerJoined broadcasts of the step that led to this state that reached a
\* session.
JoinedReceived == { b \in Broadcasts : b.msg.type = "playerJoined" /\ b.to # {} }

\* C36: a playerJoined that reaches a session is for a player whose session is in both
\* maps of the registry at the moment of the broadcast (so it does not follow the
\* player's playerLeft) and whose transport's close event has not been handled.
C36_JoinedOnlyRegistered ==
    \A b \in JoinedReceived :
        /\ b.msg.id \in DOMAIN activePlayers
        /\ SessionTransport(b.msg.id) \in DOMAIN wsToPlayerId
        /\ sockets[SessionTransport(b.msg.id)] # "CLOSED"

\* The two transports connected one after the other before anything else happened:
\* when the second connect handler ended, the first session (registered, cursor at the
\* centre) was in the players list of the second's initialState, and the first was
\* sent the second's playerJoined.
BothIntroduced ==
    /\ Len(returned) >= 2
    /\ returned[1].type = "connect"
    /\ returned[2].type = "connect"
    /\ returned[1].ws # returned[2].ws
\* The step that led to this state handled the first close event of the run.
FirstClose ==
    /\ JustClosed
    /\ \A i \in 1 .. (Len(returned) - 1) : returned[i].type # "close"

\* C37: when the close of P's transport has been handled, every session that was
\* told about P (each of two sessions introduced to the other at connect) and is
\* still registered with an open transport has been sent playerLeft with P's id,
\* wherever the cursors have moved in between.
C37_PlayerLeftReachesTold ==
    (BothIntroduced /\ FirstClose) =>
        \A q \in OpenSessions \ {Done.ws} :
            \E i \in Delivered(q) : sent[i].msg = [type |-> "playerLeft", id |-> Done.ws]

\* The step that led to this state ended a clickCell or flagCell handler whose
\* result changes cell state.
JustChanged ==
    /\ returned # <<>>
    /\ Done.type \in {"clickCell", "flagCell"}
    /\ Done.result.status \in {"revealed", "mine_hit", "flagged", "unflagged"}

\* C38: when a clickCell or flagCell handler has ended with a result that changes
\* cell state, the originator, if its session is registered and its transport open,
\* has been sent the mapUpdate of the action, wherever its cursor is.
C38_OriginatorGetsMapUpdate ==
    JustChanged =>
        (Done.player \in OpenSessions => Done.player \in BroadcastTo("mapUpdate"))

\* The client-facing state of the persisted row of cell c, "hidden" with no row.
PersistedState(c) ==
    IF c \notin DOMAIN map_state THEN "hidden"
    ELSE IF map_state[c].revealed = 1
         THEN (IF map_state[c].is_mine = 1 THEN "mine" ELSE "revealed")
         ELSE (IF map_state[c].flag_state = 1 THEN "flagged" ELSE "hidden")
\* The entries for cell c of the mapUpdate of the returned action r.
Entries(r, c) ==
    IF r.result.status \in {"revealed", "mine_hit"}
    THEN { r.result.revealedCells[i].state :
             i \in { j \in 1 .. Len(r.result.revealedCells) :
                        CellOf(r.result.revealedCells[j]) = c } }
    ELSE IF r.result.status \in {"flagged", "unflagged"} /\ CellOf(r.result.cellState) = c
         THEN { r.result.cellState.state }
         ELSE {}
\* The returned actions whose mapUpdate has an entry for cell c, by position in the
\* history, which is the order of the broadcasts.
UpdatesOf(c) == { i \in 1 .. Len(returned) : Entries(returned[i], c) # {} }
\* No handler is in flight.
Quiet == \A t \in Tasks : tasks[t].pc = "idle"

\* C39: whenever no handler is in flight, for every cell with a mapUpdate entry the
\* state carried by the last mapUpdate broadcast for the cell is the cell's persisted
\* state; and a toggleFlag step that reports 'flagged' leaves the cell persisted as
\* flagged.
C39_LastUpdateIsPersisted ==
    /\ [](Quiet =>
            \A c \in Cells :
                \A i \in UpdatesOf(c) :
                    (\A j \in UpdatesOf(c) : j <= i) =>
                        Entries(returned[i], c) = { PersistedState(c) })
    /\ [][\A t \in Tasks :
            (Returns(t) /\ Ret.type = "flagCell" /\ Ret.result.status = "flagged")
            => (CellOf(Ret) \in DOMAIN map_state' /\ map_state'[CellOf(Ret)].flag_state = 1)]_vars

\* The step ends a toggleFlag on cell c that reports 'unflagged'.
Unflags(c) ==
    \E t \in Tasks :
        /\ Returns(t)
        /\ Ret.type = "flagCell"
        /\ Ret.result.status = "unflagged"
        /\ CellOf(Ret) = c

\* C40: a step after which a cell that was persisted as flagged is no longer
\* persisted as flagged is the step of a toggleFlag that unflags the cell: no write
\* of a reveal or of a flood-fill in flight clears a flag.
C40_FlagClearedOnlyByToggle ==
    [][\A c \in Cells : (Flg(c) /\ ~Flg(c)') => Unflags(c)]_vars

====
